---- MODULE Spec2Model ----
(***************************************************************************)
(* Community Token ledger: the PostgreSQL schema of                        *)
(* apps/api/supabase/migrations/20251026103039_initial_schema.sql.         *)
(*                                                                         *)
(* A transfer is one INSERT INTO transactions, run as one database         *)
(* transaction at READ COMMITTED.  The BEFORE INSERT trigger               *)
(* validate_transaction_balance locks the wallet rows (SELECT ... FOR      *)
(* UPDATE) and validates, the table's CHECK constraints are evaluated, the *)
(* row is inserted, the AFTER INSERT trigger update_wallet_balances        *)
(* updates the wallet rows, and the commit publishes the row and the       *)
(* balances together and releases the row locks.  A RAISE EXCEPTION or a   *)
(* constraint violation rolls the whole transaction back.                  *)
(*                                                                         *)
(* wallets and ledger hold the committed rows: what every other session    *)
(* and every query reads.  tx[p] holds the uncommitted writes of session p.*)
(***************************************************************************)
EXTENDS Integers, Sequences, FiniteSets, TLC

VARIABLES wallets, system_accounts, users, ledger, rowLock, now, pc, req, vars_local, tx, outcome

vars == <<wallets, system_accounts, users, ledger, rowLock, now, pc, req, vars_local, tx, outcome>>

\* ------------------------------------------------------------------ bounds
\* No new attempt starts once the ledger holds this many rows.
MaxLedger == 2

\* The clock stops at this time (milliseconds).
MaxTime == 2
\* The most lines a distribution batch may have (the policy constant, 100 in
\* the documentation).
MaxBatch == 2
\* The width of BIGINT in bits (64 in PostgreSQL), scaled down.
BigintBits == 4

\* ------------------------------------------------------------ identifiers
\* Wallet ids a caller may name; "ghost" is the id of no wallets row until a
\* provisioning script creates one.
WalletIds == {"sys", "alice", "bob", "ghost"}
\* The concurrent database sessions.
Procs == {"p1", "p2"}
NoProc == "none"
\* The session of the operator who runs the provisioning and administration
\* scripts (direct database access).
Operator == "p1"
\* The amounts callers ask for: 0, which amount_positive rejects, and 1.
Amounts == {0, 1}
\* users.deleted_at BIGINT is nullable; a timestamp is positive, 0 stands for NULL.
NULL == 0
\* transaction_type 1 = TRANSFER, the only type the application uses.
TRANSFER == 1
TxTypes == {TRANSFER}

\* The exceptions a statement can end with.
Errors == {"Sender wallet not found", "Sender wallet is frozen",
           "Only system account wallets can perform self-transfers (issuance)",
           "Recipient wallet not found", "Recipient wallet is frozen",
           "Insufficient balance", "amount_positive", "created_at_positive",
           "transaction_type_valid", "System wallets cannot be frozen",
           "Transactions are immutable and cannot be modified or deleted",
           "balance_non_negative", "deadlock detected", "wallets_pkey", "fk_wallet",
           "system_accounts_wallet_id_key", "users_wallet_id_key", "InvalidAmount",
           "sender UPDATE affected 0 rows", "recipient UPDATE affected 0 rows",
           "Cancelled", "fk_transactions_wallet", "BatchTooLarge", "transactions_pkey", "bigint out of range"}

\* The error kind of the specification for each exception of the schema.
ErrorKind(e) ==
    CASE e = "Sender wallet not found" -> "WalletNotFound"
      [] e = "Recipient wallet not found" -> "WalletNotFound"
      [] e = "Sender wallet is frozen" -> "WalletFrozen"
      [] e = "Recipient wallet is frozen" -> "WalletFrozen"
      [] e = "Only system account wallets can perform self-transfers (issuance)" -> "UnauthorizedIssuance"
      [] e = "Insufficient balance" -> "InsufficientBalance"
      [] e = "amount_positive" -> "InvalidAmount"
      [] OTHER -> e

\* --------------------------------------------------------- table constraints
\* The largest BIGINT (2^63 - 1 in PostgreSQL).
BIGINT_MAX == 2 ^ (BigintBits - 1) - 1
\* (variant) integer arithmetic without a range check.
bigint_unchecked(x) == FALSE
\* wallets.balance BIGINT: an arithmetic result outside the type's range makes
\* PostgreSQL raise 'bigint out of range' instead of wrapping.
bigint_out_of_range(x) == x > BIGINT_MAX \/ x < -BIGINT_MAX - 1
\* wallets: CONSTRAINT balance_non_negative CHECK (balance >= 0)
balance_non_negative(balance) == balance >= 0
\* (variant) the amount constraint is missing.
amount_unconstrained(amount) == TRUE
\* transactions: CONSTRAINT amount_positive CHECK (amount > 0)
amount_positive(amount) == amount > 0
\* transactions: CONSTRAINT created_at_positive CHECK (created_at > 0)
created_at_positive(t) == t > 0
\* (variant) only the upper limit of the type code is checked.
transaction_type_below_100(t) == t < 100
\* transactions: CONSTRAINT transaction_type_valid
\*   CHECK (transaction_type >= 1 AND transaction_type < 100)
transaction_type_valid(t) == t >= 1 /\ t < 100

\* ------------------------------------------------------------------ helpers
RECURSIVE SumSeq(_)
SumSeq(s) == IF s = <<>> THEN 0 ELSE Head(s) + SumSeq(Tail(s))

RECURSIVE SumBalances(_, _)
SumBalances(ws, ids) ==
    IF ids = {} THEN 0
    ELSE LET w == CHOOSE x \in ids : TRUE
         IN ws[w].balance + SumBalances(ws, ids \ {w})

\* The transactions row of a request; the id is kept where the request names
\* one.
RowOf(r) ==
    IF "id" \in DOMAIN r
    THEN [id |-> r.id, from |-> r.from, to |-> r.to, amount |-> r.amount, type |-> r.type,
          created_at |-> r.created_at]
    ELSE [from |-> r.from, to |-> r.to, amount |-> r.amount, type |-> r.type,
          created_at |-> r.created_at]

\* The ids of the rows of rows that carry one.
IdsOf(rows) == {rows[i].id : i \in {j \in 1..Len(rows) : "id" \in DOMAIN rows[j]}}
\* (variant) transactions has no primary key.
transactions_pkey_missing(r, rows) == TRUE
\* transactions: id UUID PRIMARY KEY: the id of request r is in none of rows.
transactions_pkey(r, rows) == "id" \in DOMAIN r => r.id \notin IdsOf(rows)

EmptyTx == [rows |-> <<>>, wallets |-> <<>>]
NoReq == [kind |-> "none", from |-> "ghost", to |-> "ghost", amount |-> 0, type |-> 0,
          created_at |-> 0, row |-> 0]
NoLocal == [sender_balance |-> 0, sender_frozen |-> FALSE, recipient_frozen |-> FALSE]

Init ==
    /\ wallets = [w \in {"sys", "alice", "bob"} |-> [balance |-> 0, is_frozen |-> FALSE]]
    /\ system_accounts = {"sys"}
    /\ users = [w \in {"alice", "bob"} |-> [deleted_at |-> NULL]]
    /\ ledger = <<>>
    /\ rowLock = [w \in {"sys", "alice", "bob"} |-> NoProc]
    /\ now = 1
    /\ pc = [p \in Procs |-> "idle"]
    /\ req = [p \in Procs |-> NoReq]
    /\ vars_local = [p \in Procs |-> NoLocal]
    /\ tx = [p \in Procs |-> EmptyTx]
    /\ outcome = [p \in Procs |-> "none"]

\* ------------------------------------------------------------- row locking
\* (variant) SELECT without FOR UPDATE: the read never waits for a row lock.
RowLockIgnored(w, p) == TRUE
\* (variant) LOCK TABLE wallets: the read waits while any other session holds
\* any row.
TableLockFree(w, p) == \A x \in DOMAIN rowLock : rowLock[x] \in {NoProc, p}
\* SELECT ... FOR UPDATE on the wallets row w by session p returns at once when
\* no other session holds the row lock, and waits otherwise.
RowLockFree(w, p) == rowLock[w] \in {NoProc, p}

\* (variant) a session that ends keeps its row locks.
KeepLocks(p) == rowLock
\* Every row lock of session p is released when its transaction ends.
ReleaseLocks(p) == [w \in DOMAIN rowLock |-> IF rowLock[w] = p THEN NoProc ELSE rowLock[w]]

\* (variant) the exception is swallowed and the transaction commits what it
\* had written so far.
RaiseWithoutRollback(p, e) ==
    /\ pc' = [pc EXCEPT ![p] = "done"]
    /\ outcome' = [outcome EXCEPT ![p] = e]
    /\ ledger' = ledger \o tx[p].rows
    /\ wallets' = [w \in DOMAIN wallets |->
                     IF w \in DOMAIN tx[p].wallets
                     THEN [wallets[w] EXCEPT !.balance = tx[p].wallets[w]]
                     ELSE wallets[w]]
    /\ tx' = [tx EXCEPT ![p] = EmptyTx]
    /\ rowLock' = ReleaseLocks(p)
    /\ UNCHANGED <<system_accounts, users, now, req, vars_local>>

\* RAISE EXCEPTION (or a constraint violation) in session p: the statement and
\* its transaction are rolled back, the uncommitted writes are discarded, the
\* row locks are released and the caller gets the error.
Raise(p, e) ==
    /\ pc' = [pc EXCEPT ![p] = "done"]
    /\ outcome' = [outcome EXCEPT ![p] = e]
    /\ tx' = [tx EXCEPT ![p] = EmptyTx]
    /\ rowLock' = ReleaseLocks(p)
    /\ UNCHANGED <<wallets, system_accounts, users, ledger, now, req, vars_local>>

\* ----------------------------------------------------------- the transfer
\* A caller starts INSERT INTO transactions (from_wallet_id, to_wallet_id,
\* amount, transaction_type, created_at) in its own database transaction;
\* created_at is the caller's current time in milliseconds.
BeginInsert(p, types, limit) ==
    /\ pc[p] \in {"idle", "done"}
    /\ Len(ledger) < limit
    /\ \E f \in WalletIds, t \in WalletIds, a \in Amounts, ty \in types :
          req' = [req EXCEPT ![p] = [kind |-> "insert", from |-> f, to |-> t,
                                     amount |-> a, type |-> ty, created_at |-> now, row |-> 0]]
    /\ pc' = [pc EXCEPT ![p] = "lock_sender"]
    /\ outcome' = [outcome EXCEPT ![p] = "none"]
    /\ vars_local' = [vars_local EXCEPT ![p] = NoLocal]
    /\ tx' = [tx EXCEPT ![p] = EmptyTx]
    /\ UNCHANGED <<wallets, system_accounts, users, ledger, rowLock, now>>

\* The transaction ids callers generate (:tx_id).
TxIds == {"t1", "t2"}

\* INSERT INTO transactions (id, from_wallet_id, ...) with the caller's id.
BeginInsertWithId(p) ==
    /\ pc[p] \in {"idle", "done"}
    /\ Len(ledger) < MaxLedger
    /\ \E id \in TxIds, f \in WalletIds, t \in WalletIds, a \in Amounts :
          req' = [req EXCEPT ![p] = [kind |-> "insert", from |-> f, to |-> t,
                                     amount |-> a, type |-> TRANSFER, created_at |-> now,
                                     row |-> 0, id |-> id]]
    /\ pc' = [pc EXCEPT ![p] = "lock_sender"]
    /\ outcome' = [outcome EXCEPT ![p] = "none"]
    /\ vars_local' = [vars_local EXCEPT ![p] = NoLocal]
    /\ tx' = [tx EXCEPT ![p] = EmptyTx]
    /\ UNCHANGED <<wallets, system_accounts, users, ledger, rowLock, now>>

\* A transfer with a defined transaction type.
BeginTransfer(p) == BeginInsert(p, TxTypes, MaxLedger)

\* (variant) a self-transfer is not recognised as issuance.
never_self_transfer(r) == FALSE
\* is_self_transfer := (NEW.from_wallet_id = NEW.to_wallet_id)
is_self_transfer(r) == r.from = r.to

\* (variant) the lookup in system_accounts finds nothing.
no_wallet_is_system(w) == FALSE
\* (variant) every wallet passes for a system wallet.
any_wallet_is_system(w) == TRUE
\* EXISTS(SELECT 1 FROM system_accounts WHERE wallet_id = NEW.from_wallet_id)
is_system_wallet(w) == w \in system_accounts

\* (variant) the balance check is missing.
BalanceUnchecked(sender_balance, amount) == FALSE
\* IF sender_balance < NEW.amount THEN RAISE 'Insufficient balance'
InsufficientBalance(sender_balance, amount) == sender_balance < amount

\* The balance session p reads for wallet w: its own uncommitted row version if
\* it wrote one, else the committed row.
BalanceSeenBy(p, w) ==
    IF w \in DOMAIN tx[p].wallets THEN tx[p].wallets[w] ELSE wallets[w].balance

\* validate_transaction_balance, first part: lock and read the sender row, then
\* the NOT FOUND check, the frozen check and, for a self-transfer, the
\* system-account check (which returns NEW without any balance check).
LockSender(p) ==
    /\ pc[p] = "lock_sender"
    /\ LET r == req[p] IN
       IF r.from \notin DOMAIN wallets
       THEN Raise(p, "Sender wallet not found")
       ELSE /\ RowLockFree(r.from, p)
            /\ LET row == wallets[r.from] IN
               IF row.is_frozen
               THEN Raise(p, "Sender wallet is frozen")
               ELSE IF is_self_transfer(r) /\ ~is_system_wallet(r.from)
               THEN Raise(p, "Only system account wallets can perform self-transfers (issuance)")
               ELSE /\ rowLock' = [rowLock EXCEPT ![r.from] = p]
                    /\ vars_local' = [vars_local EXCEPT ![p].sender_balance = BalanceSeenBy(p, r.from),
                                                         ![p].sender_frozen = row.is_frozen]
                    /\ pc' = [pc EXCEPT ![p] =
                                IF is_self_transfer(r) THEN "constraints" ELSE "lock_recipient"]
                    /\ UNCHANGED <<wallets, system_accounts, users, ledger, now, req, tx, outcome>>

\* (variant) the recipient row is locked and read, but its is_frozen is never
\* looked at.
LockRecipientFrozenUnchecked(p) ==
    /\ pc[p] = "lock_recipient"
    /\ LET r == req[p] IN
       IF r.to \notin DOMAIN wallets
       THEN Raise(p, "Recipient wallet not found")
       ELSE /\ RowLockFree(r.to, p)
            /\ IF InsufficientBalance(vars_local[p].sender_balance, r.amount)
               THEN Raise(p, "Insufficient balance")
               ELSE /\ rowLock' = [rowLock EXCEPT ![r.to] = p]
                    /\ vars_local' = [vars_local EXCEPT ![p].recipient_frozen = wallets[r.to].is_frozen]
                    /\ pc' = [pc EXCEPT ![p] = "constraints"]
                    /\ UNCHANGED <<wallets, system_accounts, users, ledger, now, req, tx, outcome>>

\* validate_transaction_balance, second part (not a self-transfer): lock and
\* read the recipient row, then the NOT FOUND check, the frozen check and the
\* balance check against the sender_balance read under the sender's lock.
LockRecipient(p) ==
    /\ pc[p] = "lock_recipient"
    /\ LET r == req[p] IN
       IF r.to \notin DOMAIN wallets
       THEN Raise(p, "Recipient wallet not found")
       ELSE /\ RowLockFree(r.to, p)
            /\ IF wallets[r.to].is_frozen
               THEN Raise(p, "Recipient wallet is frozen")
               ELSE IF InsufficientBalance(vars_local[p].sender_balance, r.amount)
               THEN Raise(p, "Insufficient balance")
               ELSE /\ rowLock' = [rowLock EXCEPT ![r.to] = p]
                    /\ vars_local' = [vars_local EXCEPT ![p].recipient_frozen = wallets[r.to].is_frozen]
                    /\ pc' = [pc EXCEPT ![p] = "constraints"]
                    /\ UNCHANGED <<wallets, system_accounts, users, ledger, now, req, tx, outcome>>

\* (variant) the inserted row is visible to other sessions before the commit.
InsertRowVisible(p) ==
    /\ pc[p] = "constraints"
    /\ tx' = [tx EXCEPT ![p].rows = Append(@, RowOf(req[p]))]
    /\ ledger' = Append(ledger, RowOf(req[p]))
    /\ pc' = [pc EXCEPT ![p] = "after_insert"]
    /\ UNCHANGED <<wallets, system_accounts, users, rowLock, now, req, vars_local, outcome>>

\* After the BEFORE INSERT trigger returned NEW: the CHECK constraints of
\* transactions are evaluated (in name order) and the row is inserted, which
\* checks the primary key against the committed rows and the session's own (an
\* uncommitted row of another session with the same id makes the INSERT wait
\* for that session's end); the row stays uncommitted, visible to session p
\* only.
InsertRow(p) ==
    /\ pc[p] = "constraints"
    /\ LET r == req[p] IN
       IF ~amount_positive(r.amount)
       THEN Raise(p, "amount_positive")
       ELSE IF ~created_at_positive(r.created_at)
       THEN Raise(p, "created_at_positive")
       ELSE IF ~transaction_type_valid(r.type)
       THEN Raise(p, "transaction_type_valid")
       ELSE IF ~transactions_pkey(r, ledger \o tx[p].rows)
       THEN Raise(p, "transactions_pkey")
       ELSE /\ \A q \in Procs \ {p} : transactions_pkey(r, tx[q].rows)
            /\ tx' = [tx EXCEPT ![p].rows = Append(@, RowOf(r))]
            /\ pc' = [pc EXCEPT ![p] = "after_insert"]
            /\ UNCHANGED <<wallets, system_accounts, users, ledger, rowLock, now, req, vars_local, outcome>>

\* (variant) the sender is debited for a self-transfer too.
NewBalancesDebitAlways(r, balFrom, balTo) ==
    IF r.from # r.to
    THEN (r.from :> (balFrom - r.amount)) @@ (r.to :> (balTo + r.amount))
    ELSE (r.to :> (balTo - r.amount + r.amount))

\* (variant) the recipient is not credited.
NewBalancesNoCredit(r, balFrom, balTo) ==
    IF r.from # r.to
    THEN (r.from :> (balFrom - r.amount)) @@ (r.to :> balTo)
    ELSE (r.to :> (balTo + r.amount))

\* (variant) the recipient's balance is set to the amount instead of being
\* increased by it.
NewBalancesOverwrite(r, balFrom, balTo) ==
    IF r.from # r.to
    THEN (r.from :> (balFrom - r.amount)) @@ (r.to :> r.amount)
    ELSE (r.to :> (balTo + r.amount))

\* update_wallet_balances: the balances after the two UPDATEs for row r, given
\* the balances bal the session sees.
\*   IF NEW.from_wallet_id != NEW.to_wallet_id THEN balance = balance - NEW.amount
\*   balance = balance + NEW.amount WHERE id = NEW.to_wallet_id
NewBalances(r, balFrom, balTo) ==
    IF r.from # r.to
    THEN (r.from :> (balFrom - r.amount)) @@ (r.to :> (balTo + r.amount))
    ELSE (r.to :> (balTo + r.amount))

\* Where session p goes on after an INSERT INTO transactions and its triggers:
\* a single transfer commits, a distribution script runs its next statement
\* in the same database transaction.
AfterInsert(p) == IF req[p].kind = "distribute" THEN "next_line" ELSE "commit"

\* The AFTER INSERT trigger update_wallet_balances in session p; each UPDATE of
\* wallets is subject to CHECK (balance >= 0), and its arithmetic to the range
\* of BIGINT (the sender's UPDATE comes first; only the recipient's sum can
\* leave the range).
UpdateWalletBalances(p) ==
    /\ pc[p] = "after_insert"
    /\ LET r == req[p]
           nb == NewBalances(r, BalanceSeenBy(p, r.from), BalanceSeenBy(p, r.to))
       IN IF \E w \in DOMAIN nb : ~balance_non_negative(nb[w])
          THEN Raise(p, "balance_non_negative")
          ELSE IF \E w \in DOMAIN nb : bigint_out_of_range(nb[w])
          THEN Raise(p, "bigint out of range")
          ELSE /\ tx' = [tx EXCEPT ![p].wallets = nb @@ @]
               /\ pc' = [pc EXCEPT ![p] = AfterInsert(p)]
               /\ UNCHANGED <<wallets, system_accounts, users, ledger, rowLock, now, req, vars_local, outcome>>

\* COMMIT of session p: the inserted row and the updated balances become
\* visible together, and the row locks are released.
Commit(p) ==
    /\ pc[p] = "commit"
    /\ ledger' = ledger \o tx[p].rows
    /\ wallets' = [w \in DOMAIN wallets |->
                     IF w \in DOMAIN tx[p].wallets
                     THEN [wallets[w] EXCEPT !.balance = tx[p].wallets[w]]
                     ELSE wallets[w]]
    /\ rowLock' = ReleaseLocks(p)
    /\ pc' = [pc EXCEPT ![p] = "done"]
    /\ outcome' = [outcome EXCEPT ![p] = "committed"]
    /\ tx' = [tx EXCEPT ![p] = EmptyTx]
    /\ UNCHANGED <<system_accounts, users, now, req, vars_local>>

\* The wallets row session p is waiting to lock, if any.
WaitsOn(p) ==
    IF pc[p] \in {"lock_sender", "read_balance", "app_debit"} /\ req[p].from \in DOMAIN wallets
    THEN {req[p].from}
    ELSE IF pc[p] \in {"lock_recipient", "app_credit"} /\ req[p].to \in DOMAIN wallets
    THEN {req[p].to}
    ELSE {}

\* (variant) no lock wait is ever noticed.
never_waits_for(p, q) == FALSE
\* p waits for a row lock that q holds.
WaitsFor(p, q) == p # q /\ \E w \in WaitsOn(p) : rowLock[w] = q

RECURSIVE ReachableFrom(_, _)
ReachableFrom(S, n) ==
    IF n = 0 THEN S
    ELSE ReachableFrom(S \cup {q \in Procs : \E s \in S : WaitsFor(s, q)}, n - 1)

\* PostgreSQL's deadlock detector: a session on a cycle of lock waits is
\* aborted with 'deadlock detected'.
DeadlockAbort(p) ==
    /\ \E q \in Procs : WaitsFor(p, q) /\ p \in ReachableFrom({q}, Cardinality(Procs))
    /\ Raise(p, "deadlock detected")

\* The caller's deadline passes while session p's transfer is in flight,
\* whether it waits for a row lock or holds some: the operation is aborted,
\* which in the database is the rollback of its transaction.
Cancel(p) ==
    /\ pc[p] \in {"lock_sender", "lock_recipient", "constraints", "after_insert", "commit"}
    /\ Raise(p, "Cancelled")

\* ------------------------------------------------ application-layer transfer
\* docs/database.md, Recommended Application-Layer Implementation: one
\* database transaction (READ COMMITTED) of two conditional UPDATEs of wallets
\* and the INSERT INTO transactions, which runs the triggers above.
BeginAppTransfer(p) ==
    /\ pc[p] \in {"idle", "done"}
    /\ Len(ledger) < MaxLedger
    /\ \E f \in WalletIds, a \in Amounts : \E t \in WalletIds \ {f} :
          req' = [req EXCEPT ![p] = [kind |-> "app_transfer", from |-> f, to |-> t,
                                     amount |-> a, type |-> TRANSFER, created_at |-> now, row |-> 0]]
    /\ pc' = [pc EXCEPT ![p] = "app_debit"]
    /\ outcome' = [outcome EXCEPT ![p] = "none"]
    /\ vars_local' = [vars_local EXCEPT ![p] = NoLocal]
    /\ tx' = [tx EXCEPT ![p] = EmptyTx]
    /\ UNCHANGED <<wallets, system_accounts, users, ledger, rowLock, now>>

\* 1. UPDATE wallets SET balance = balance - :amount WHERE id = :from_wallet_id
\*    AND balance >= :amount AND is_frozen = false; 0 affected rows = the
\*    transfer fails (insufficient balance or frozen).
AppDebitSender(p) ==
    /\ pc[p] = "app_debit"
    /\ LET r == req[p] IN
       IF r.from \notin DOMAIN wallets
       THEN Raise(p, "sender UPDATE affected 0 rows")
       ELSE /\ RowLockFree(r.from, p)
            /\ IF wallets[r.from].balance >= r.amount /\ ~wallets[r.from].is_frozen
               THEN /\ rowLock' = [rowLock EXCEPT ![r.from] = p]
                    /\ tx' = [tx EXCEPT ![p].wallets =
                                 (r.from :> (wallets[r.from].balance - r.amount)) @@ @]
                    /\ pc' = [pc EXCEPT ![p] = "app_credit"]
                    /\ UNCHANGED <<wallets, system_accounts, users, ledger, now, req,
                                   vars_local, outcome>>
               ELSE Raise(p, "sender UPDATE affected 0 rows")

\* 2. UPDATE wallets SET balance = balance + :amount WHERE id = :to_wallet_id
\*    AND is_frozen = false; then 3., the INSERT, starts.
AppCreditRecipient(p) ==
    /\ pc[p] = "app_credit"
    /\ LET r == req[p] IN
       IF r.to \notin DOMAIN wallets
       THEN Raise(p, "recipient UPDATE affected 0 rows")
       ELSE /\ RowLockFree(r.to, p)
            /\ IF ~wallets[r.to].is_frozen
               THEN /\ rowLock' = [rowLock EXCEPT ![r.to] = p]
                    /\ tx' = [tx EXCEPT ![p].wallets =
                                 (r.to :> (BalanceSeenBy(p, r.to) + r.amount)) @@ @]
                    /\ pc' = [pc EXCEPT ![p] = "lock_sender"]
                    /\ UNCHANGED <<wallets, system_accounts, users, ledger, now, req,
                                   vars_local, outcome>>
               ELSE Raise(p, "recipient UPDATE affected 0 rows")

\* ------------------------------------------------------------------ clock
\* Time passes: current_unix_ms() and the callers' :current_time_ms grow.
Tick ==
    /\ now < MaxTime
    /\ now' = now + 1
    /\ UNCHANGED <<wallets, system_accounts, users, ledger, rowLock, pc, req, vars_local, tx, outcome>>

\* ------------------------------------------------------------ distribution
\* The distribution script (Distribution Orchestrator): one database
\* transaction that issues the shortfall of the source wallet and then inserts
\* one transaction per line; every INSERT runs the triggers above.
\* A line is (recipient, amount); recipients are wallets of no system account.
Lines == [to : WalletIds \ {"sys"}, amount : Amounts]
\* Batches of one line more than MaxBatch, the same line repeated.
Oversized == {[i \in 1..(MaxBatch + 1) |-> l] : l \in Lines}
\* The batches callers ask for: one line, or two lines (the same recipient may
\* appear twice), or too many lines.
Batches == {<<l>> : l \in Lines} \cup {<<l1, l2>> : l1 \in Lines, l2 \in Lines} \cup Oversized

\* (variant) no limit on the number of lines.
batch_never_too_large(lines) == FALSE
\* Maximum MaxBatch recipients per batch distribution.
batch_too_large(lines) == Len(lines) > MaxBatch

RECURSIVE totalRequested(_)
totalRequested(lines) ==
    IF lines = <<>> THEN 0 ELSE Head(lines).amount + totalRequested(Tail(lines))

\* Distribute(from, lines, reason) starts in session p, as long as the ledger
\* holds fewer than limit rows.
BeginBatch(p, limit) ==
    /\ pc[p] \in {"idle", "done"}
    /\ Len(ledger) < limit
    /\ \E f \in system_accounts, lines \in Batches :
          req' = [req EXCEPT ![p] = [kind |-> "distribute", from |-> f, to |-> f, amount |-> 0,
                                     type |-> TRANSFER, created_at |-> now, row |-> 0,
                                     lines |-> lines, line |-> 0, currentBalance |-> 0]]
    /\ pc' = [pc EXCEPT ![p] = "validate_batch"]
    /\ outcome' = [outcome EXCEPT ![p] = "none"]
    /\ vars_local' = [vars_local EXCEPT ![p] = NoLocal]
    /\ tx' = [tx EXCEPT ![p] = EmptyTx]
    /\ UNCHANGED <<wallets, system_accounts, users, ledger, rowLock, now>>

BeginDistribute(p) == BeginBatch(p, MaxLedger)

\* Step 1: validate the batch: its size is within the bound and every amount
\* is positive.
ValidateBatch(p) ==
    /\ pc[p] = "validate_batch"
    /\ IF batch_too_large(req[p].lines)
       THEN Raise(p, "BatchTooLarge")
       ELSE IF \E i \in 1..Len(req[p].lines) : req[p].lines[i].amount <= 0
       THEN Raise(p, "InvalidAmount")
       ELSE /\ pc' = [pc EXCEPT ![p] = "read_balance"]
            /\ UNCHANGED <<wallets, system_accounts, users, ledger, rowLock, now, req,
                           vars_local, tx, outcome>>

\* Steps 2 to 4: with exclusive access to the source wallet, read its current
\* balance; if totalRequested > currentBalance the next statement is the
\* issuance (source to itself) of exactly totalRequested - currentBalance.
ReadSourceBalance(p) ==
    /\ pc[p] = "read_balance"
    /\ LET r == req[p]
           currentBalance == wallets[r.from].balance
       IN /\ RowLockFree(r.from, p)
          /\ rowLock' = [rowLock EXCEPT ![r.from] = p]
          /\ IF totalRequested(r.lines) > currentBalance
             THEN /\ req' = [req EXCEPT ![p].currentBalance = currentBalance,
                                        ![p].to = r.from,
                                        ![p].amount = totalRequested(r.lines) - currentBalance]
                  /\ pc' = [pc EXCEPT ![p] = "lock_sender"]
             ELSE /\ req' = [req EXCEPT ![p].currentBalance = currentBalance]
                  /\ pc' = [pc EXCEPT ![p] = "next_line"]
          /\ UNCHANGED <<wallets, system_accounts, users, ledger, now, vars_local, tx, outcome>>

\* Step 5: the next line becomes the next INSERT INTO transactions of the
\* script; after the last line the script commits.
NextLine(p) ==
    /\ pc[p] = "next_line"
    /\ LET r == req[p] IN
       IF r.line < Len(r.lines)
       THEN /\ req' = [req EXCEPT ![p].line = r.line + 1,
                                  ![p].to = r.lines[r.line + 1].to,
                                  ![p].amount = r.lines[r.line + 1].amount]
            /\ pc' = [pc EXCEPT ![p] = "lock_sender"]
       ELSE /\ pc' = [pc EXCEPT ![p] = "commit"]
            /\ UNCHANGED req
    /\ UNCHANGED <<wallets, system_accounts, users, ledger, rowLock, now, vars_local, tx, outcome>>

\* ------------------------------------------------------ freeze / unfreeze
\* (variant) the trigger never raises.
freeze_never_prevented(w, new_is_frozen) == FALSE
\* prevent_system_wallet_freeze (BEFORE INSERT OR UPDATE OF is_frozen):
\* raises when NEW.is_frozen and the wallet is referenced by a system account.
prevent_system_wallet_freeze(w, new_is_frozen) ==
    new_is_frozen /\ w \in system_accounts

\* A statement that session p runs in one step (autocommit): the request and
\* its outcome.
Statement(p, r, result) ==
    /\ pc[p] \in {"idle", "done"}
    /\ req' = [req EXCEPT ![p] = r]
    /\ outcome' = [outcome EXCEPT ![p] = result]
    /\ pc' = [pc EXCEPT ![p] = "done"]
    /\ vars_local' = [vars_local EXCEPT ![p] = NoLocal]
    /\ UNCHANGED <<system_accounts, users, rowLock, now, tx>>

\* A statement of the provisioning scripts, run in one step by session p: the
\* request and its outcome; the tables it may write are left to the caller.
ProvisioningStatement(p, kind, w, result) ==
    /\ pc[p] \in {"idle", "done"}
    /\ req' = [req EXCEPT ![p] = [kind |-> kind, from |-> w, to |-> w, amount |-> 0,
                                   type |-> 0, created_at |-> now, row |-> 0]]
    /\ outcome' = [outcome EXCEPT ![p] = result]
    /\ pc' = [pc EXCEPT ![p] = "done"]
    /\ vars_local' = [vars_local EXCEPT ![p] = NoLocal]
    /\ UNCHANGED <<ledger, now, tx>>

\* UPDATE wallets SET is_frozen = b WHERE id = w, as one autocommit statement
\* of session p; the UPDATE waits for the row lock.
SetFrozen(p, w, b) ==
    /\ w \in DOMAIN wallets
    /\ rowLock[w] = NoProc
    /\ LET r == [kind |-> IF b THEN "freeze" ELSE "unfreeze", from |-> w, to |-> w,
                 amount |-> 0, type |-> 0, created_at |-> 0, row |-> 0]
       IN IF prevent_system_wallet_freeze(w, b)
          THEN /\ Statement(p, r, "System wallets cannot be frozen")
               /\ UNCHANGED <<wallets, ledger>>
          ELSE /\ Statement(p, r, "committed")
               /\ wallets' = [wallets EXCEPT ![w].is_frozen = b]
               /\ UNCHANGED ledger

\* ------------------------------------------------------------ provisioning
\* INSERT INTO wallets (id, balance, is_frozen, ...) VALUES (w, 0, frozen, ...):
\* the trigger check_system_wallet_freeze fires BEFORE INSERT, that is before
\* the primary key is checked; the primary key must be new.
CreateWallet(p, w, frozen) ==
    LET kind == IF frozen THEN "create_frozen_wallet" ELSE "create_wallet" IN
    IF prevent_system_wallet_freeze(w, frozen)
    THEN /\ ProvisioningStatement(p, kind, w, "System wallets cannot be frozen")
         /\ UNCHANGED <<wallets, system_accounts, users, rowLock>>
    ELSE IF w \in DOMAIN wallets
    THEN /\ ProvisioningStatement(p, kind, w, "wallets_pkey")
         /\ UNCHANGED <<wallets, system_accounts, users, rowLock>>
    ELSE /\ ProvisioningStatement(p, kind, w, "committed")
         /\ wallets' = (w :> [balance |-> 0, is_frozen |-> frozen]) @@ wallets
         /\ rowLock' = (w :> NoProc) @@ rowLock
         /\ UNCHANGED <<system_accounts, users>>

\* INSERT INTO system_accounts (id, wallet_id, name, ...) VALUES (.., w, ..):
\* fk_wallet needs the wallets row, wallet_id is UNIQUE within the table; the
\* table has no trigger.
CreateSystemAccount(p, w) ==
    IF w \notin DOMAIN wallets
    THEN /\ ProvisioningStatement(p, "create_system_account", w, "fk_wallet")
         /\ UNCHANGED <<wallets, system_accounts, users, rowLock>>
    ELSE IF w \in system_accounts
    THEN /\ ProvisioningStatement(p, "create_system_account", w, "system_accounts_wallet_id_key")
         /\ UNCHANGED <<wallets, system_accounts, users, rowLock>>
    ELSE /\ ProvisioningStatement(p, "create_system_account", w, "committed")
         /\ system_accounts' = system_accounts \cup {w}
         /\ UNCHANGED <<wallets, users, rowLock>>

\* INSERT INTO users (id, wallet_id, username, ...) VALUES (.., w, ..), with
\* deleted_at NULL: fk_wallet needs the wallets row, wallet_id is UNIQUE within
\* the table.  users rows are keyed here by their wallet_id.
CreateUser(p, w) ==
    IF w \notin DOMAIN wallets
    THEN /\ ProvisioningStatement(p, "create_user", w, "fk_wallet")
         /\ UNCHANGED <<wallets, system_accounts, users, rowLock>>
    ELSE IF w \in DOMAIN users
    THEN /\ ProvisioningStatement(p, "create_user", w, "users_wallet_id_key")
         /\ UNCHANGED <<wallets, system_accounts, users, rowLock>>
    ELSE /\ ProvisioningStatement(p, "create_user", w, "committed")
         /\ users' = (w :> [deleted_at |-> NULL]) @@ users
         /\ UNCHANGED <<wallets, system_accounts, rowLock>>

\* (variant) the UPDATE without "AND deleted_at IS NULL".
soft_delete_user_again(p, u) ==
    IF u \in DOMAIN users
    THEN /\ ProvisioningStatement(p, "soft_delete_user", u, "true")
         /\ users' = [users EXCEPT ![u].deleted_at = now]
         /\ UNCHANGED <<wallets, system_accounts, rowLock>>
    ELSE /\ ProvisioningStatement(p, "soft_delete_user", u, "false")
         /\ UNCHANGED <<wallets, system_accounts, users, rowLock>>
\* (variant) a soft delete that also freezes the user's wallet.
soft_delete_user_freezing(p, u) ==
    IF u \in DOMAIN users /\ users[u].deleted_at = NULL
    THEN /\ ProvisioningStatement(p, "soft_delete_user", u, "true")
         /\ users' = [users EXCEPT ![u].deleted_at = now]
         /\ wallets' = [wallets EXCEPT ![u].is_frozen = TRUE]
         /\ UNCHANGED <<system_accounts, rowLock>>
    ELSE /\ ProvisioningStatement(p, "soft_delete_user", u, "false")
         /\ UNCHANGED <<wallets, system_accounts, users, rowLock>>
\* soft_delete_user(user_uuid): UPDATE users SET deleted_at = current_time_ms
\* WHERE id = user_uuid AND deleted_at IS NULL; RETURN FOUND.  Neither the
\* wallets row nor its balance is touched.
soft_delete_user(p, u) ==
    IF u \in DOMAIN users /\ users[u].deleted_at = NULL
    THEN /\ ProvisioningStatement(p, "soft_delete_user", u, "true")
         /\ users' = [users EXCEPT ![u].deleted_at = now]
         /\ UNCHANGED <<wallets, system_accounts, rowLock>>
    ELSE /\ ProvisioningStatement(p, "soft_delete_user", u, "false")
         /\ UNCHANGED <<wallets, system_accounts, users, rowLock>>

\* ------------------------------------------------- transaction immutability
\* CREATE TRIGGER prevent_transaction_update BEFORE UPDATE ON transactions
\* executes prevent_transaction_modification, which always raises.
prevent_transaction_update == TRUE
\* (variant) no trigger guards DELETE.
no_delete_trigger == FALSE
\* CREATE TRIGGER prevent_transaction_delete BEFORE DELETE ON transactions
prevent_transaction_delete == TRUE

RemoveAt(s, i) == SubSeq(s, 1, i - 1) \o SubSeq(s, i + 1, Len(s))

\* UPDATE transactions SET amount = a WHERE id = (the i-th committed row)
UpdateTransaction(p, i, a) ==
    /\ i \in 1..Len(ledger)
    /\ LET r == [kind |-> "update_transaction", from |-> ledger[i].from, to |-> ledger[i].to,
                 amount |-> a, type |-> ledger[i].type,
                 created_at |-> ledger[i].created_at, row |-> i]
       IN IF prevent_transaction_update
          THEN /\ Statement(p, r, "Transactions are immutable and cannot be modified or deleted")
               /\ UNCHANGED <<wallets, ledger>>
          ELSE /\ Statement(p, r, "committed")
               /\ ledger' = [ledger EXCEPT ![i].amount = a]
               /\ UNCHANGED wallets

\* DELETE FROM transactions WHERE id = (the i-th committed row)
DeleteTransaction(p, i) ==
    /\ i \in 1..Len(ledger)
    /\ LET r == [kind |-> "delete_transaction", from |-> ledger[i].from, to |-> ledger[i].to,
                 amount |-> ledger[i].amount, type |-> ledger[i].type,
                 created_at |-> ledger[i].created_at, row |-> i]
       IN IF prevent_transaction_delete
          THEN /\ Statement(p, r, "Transactions are immutable and cannot be modified or deleted")
               /\ UNCHANGED <<wallets, ledger>>
          ELSE /\ Statement(p, r, "committed")
               /\ ledger' = RemoveAt(ledger, i)
               /\ UNCHANGED wallets

\* The row numbers a statement may name.
RowNumbers == 1..(MaxLedger + 1)

\* The steps of the transfers (INSERT INTO transactions) of all sessions.
TransferNext ==
    \/ \E p \in Procs : BeginTransfer(p)
    \/ \E p \in Procs : LockSender(p)
    \/ \E p \in Procs : LockRecipient(p)
    \/ \E p \in Procs : InsertRow(p)
    \/ \E p \in Procs : UpdateWalletBalances(p)
    \/ \E p \in Procs : Commit(p)
    \/ \E p \in Procs : DeadlockAbort(p)

\* Attempts to change the committed history.
TamperNext ==
    \/ \E p \in Procs, i \in RowNumbers, a \in Amounts : UpdateTransaction(p, i, a)
    \/ \E p \in Procs, i \in RowNumbers : DeleteTransaction(p, i)

\* Transfers, and attempts to update or delete committed transactions.
Next == TransferNext \/ TamperNext

Spec == Init /\ [][Next]_vars

\* Transfers under fair scheduling: a session that can take its next step
\* takes it, the deadlock detector runs, and a session waiting for a row lock
\* gets it once the lock is released often enough (lock waiters are queued).
Fairness ==
    \A p \in Procs :
        /\ WF_vars(InsertRow(p) \/ UpdateWalletBalances(p) \/ Commit(p) \/ DeadlockAbort(p))
        /\ SF_vars(LockSender(p))
        /\ SF_vars(LockRecipient(p))

SpecLive == Init /\ [][TransferNext]_vars /\ Fairness

\* Concurrent inserts whose callers name the transaction id, so that a request
\* can be sent again with the id of a committed one.
NextReplay ==
    \/ \E p \in Procs : BeginInsertWithId(p)
    \/ \E p \in Procs : LockSender(p)
    \/ \E p \in Procs : LockRecipient(p)
    \/ \E p \in Procs : InsertRow(p)
    \/ \E p \in Procs : UpdateWalletBalances(p)
    \/ \E p \in Procs : Commit(p)
    \/ \E p \in Procs : DeadlockAbort(p)

SpecReplay == Init /\ [][NextReplay]_vars

\* Transfers, with wallets being frozen and unfrozen concurrently.
NextFreeze ==
    \/ TransferNext
    \/ \E p \in Procs, w \in WalletIds, b \in BOOLEAN : SetFrozen(p, w, b)

SpecFreeze == Init /\ [][NextFreeze]_vars

\* The operator's distributions, concurrent with the single transfers of the
\* other sessions.
NextDistribute ==
    \/ BeginDistribute(Operator)
    \/ ValidateBatch(Operator)
    \/ ReadSourceBalance(Operator)
    \/ NextLine(Operator)
    \/ \E p \in Procs \ {Operator} : BeginTransfer(p)
    \/ \E p \in Procs : LockSender(p)
    \/ \E p \in Procs : LockRecipient(p)
    \/ \E p \in Procs : InsertRow(p)
    \/ \E p \in Procs : UpdateWalletBalances(p)
    \/ \E p \in Procs : Commit(p)
    \/ \E p \in Procs : DeadlockAbort(p)

SpecDistribute == Init /\ [][NextDistribute]_vars

\* Provisioning of wallets and owners, soft deletes, freezing and unfreezing,
\* one statement after the other.
NextProvision ==
    \/ \E w \in WalletIds, b \in BOOLEAN : SetFrozen(Operator, w, b)
    \/ \E w \in WalletIds, b \in BOOLEAN : CreateWallet(Operator, w, b)
    \/ \E w \in WalletIds : CreateSystemAccount(Operator, w)
    \/ \E w \in WalletIds : CreateUser(Operator, w)
    \/ \E w \in WalletIds : soft_delete_user(Operator, w)

SpecProvision == Init /\ [][NextProvision]_vars

\* Concurrent transfers while time passes.
NextClock == TransferNext \/ Tick

SpecClock == Init /\ [][NextClock]_vars

\* Every documented way of writing a balance or the ledger: trigger-validated
\* transfers and application-layer transfers of concurrent sessions.
NextWriters ==
    \/ TransferNext
    \/ \E p \in Procs : BeginAppTransfer(p)
    \/ \E p \in Procs : AppDebitSender(p)
    \/ \E p \in Procs : AppCreditRecipient(p)

SpecWriters == Init /\ [][NextWriters]_vars

\* The operator's transfers, one after the other, with users and system
\* accounts being provisioned and users being soft-deleted in between.
NextSupply ==
    \/ BeginTransfer(Operator)
    \/ LockSender(Operator)
    \/ LockRecipient(Operator)
    \/ InsertRow(Operator)
    \/ UpdateWalletBalances(Operator)
    \/ Commit(Operator)
    \/ \E w \in WalletIds : CreateSystemAccount(Operator, w)
    \/ \E w \in WalletIds : CreateUser(Operator, w)
    \/ \E w \in WalletIds : soft_delete_user(Operator, w)

SpecSupply == Init /\ [][NextSupply]_vars

\* Concurrent transfers, each of which its caller's deadline may cancel at
\* any point before the commit.
NextDeadline ==
    \/ TransferNext
    \/ \E p \in Procs : Cancel(p)

SpecDeadline == Init /\ [][NextDeadline]_vars

\* One session's transfers while the operator freezes and unfreezes wallets
\* and inserts wallets rows.
NextFreezeRequest ==
    \/ \E p \in Procs \ {Operator} : BeginTransfer(p)
    \/ \E p \in Procs \ {Operator} : LockSender(p)
    \/ \E p \in Procs \ {Operator} : LockRecipient(p)
    \/ \E p \in Procs \ {Operator} : InsertRow(p)
    \/ \E p \in Procs \ {Operator} : UpdateWalletBalances(p)
    \/ \E p \in Procs \ {Operator} : Commit(p)
    \/ \E w \in WalletIds, b \in BOOLEAN : SetFrozen(Operator, w, b)
    \/ \E w \in WalletIds, b \in BOOLEAN : CreateWallet(Operator, w, b)

SpecFreezeRequest == Init /\ [][NextFreezeRequest]_vars

\* ------------------------------------------------------- ledger integrity
\* The type codes callers send: the limits of the reserved range 1-99 and
\* their neighbours.
TypeCodes == {0, TRANSFER, 99, 100}

\* INSERT INTO transactions (...) with any transaction_type.
BeginTypedTransfer(p) == BeginInsert(p, TypeCodes, MaxLedger)

\* (variant) ON DELETE CASCADE-like: a referenced wallet can be deleted.
never_referenced(w) == FALSE
\* fk_from_wallet, fk_to_wallet ... REFERENCES wallets(id) ON DELETE RESTRICT:
\* some transaction names wallet w.
referenced_by_transactions(w) ==
    \E i \in 1..Len(ledger) : ledger[i].from = w \/ ledger[i].to = w

\* DELETE FROM wallets WHERE id = w as one autocommit statement of session p;
\* the DELETE waits for the row lock, and every foreign key that references
\* wallets is ON DELETE RESTRICT.
DeleteWallet(p, w) ==
    /\ w \in DOMAIN wallets
    /\ rowLock[w] = NoProc
    /\ IF w \in DOMAIN users \/ w \in system_accounts
       THEN /\ ProvisioningStatement(p, "delete_wallet", w, "fk_wallet")
            /\ UNCHANGED <<wallets, system_accounts, users, rowLock>>
       ELSE IF referenced_by_transactions(w)
       THEN /\ ProvisioningStatement(p, "delete_wallet", w, "fk_transactions_wallet")
            /\ UNCHANGED <<wallets, system_accounts, users, rowLock>>
       ELSE /\ ProvisioningStatement(p, "delete_wallet", w, "committed")
            /\ wallets' = [x \in DOMAIN wallets \ {w} |-> wallets[x]]
            /\ rowLock' = [x \in DOMAIN rowLock \ {w} |-> rowLock[x]]
            /\ UNCHANGED <<system_accounts, users>>

\* One session's inserts with any type code, while the operator creates and
\* deletes wallets.
NextLedger ==
    \/ \E p \in Procs \ {Operator} : BeginTypedTransfer(p)
    \/ \E p \in Procs \ {Operator} : LockSender(p)
    \/ \E p \in Procs \ {Operator} : LockRecipient(p)
    \/ \E p \in Procs \ {Operator} : InsertRow(p)
    \/ \E p \in Procs \ {Operator} : UpdateWalletBalances(p)
    \/ \E p \in Procs \ {Operator} : Commit(p)
    \/ \E w \in WalletIds, b \in BOOLEAN : CreateWallet(Operator, w, b)
    \/ \E w \in WalletIds : DeleteWallet(Operator, w)

SpecLedger == Init /\ [][NextLedger]_vars

\* ------------------------------------------------------- arrival orders
\* The ledger after the seeding (first issuance on the system wallet) and one
\* distribution to each user.
Funding ==
    <<[from |-> "sys", to |-> "sys", amount |-> 3, type |-> TRANSFER, created_at |-> 1],
      [from |-> "sys", to |-> "alice", amount |-> 1, type |-> TRANSFER, created_at |-> 1],
      [from |-> "sys", to |-> "bob", amount |-> 1, type |-> TRANSFER, created_at |-> 1]>>
\* The wallets after the funding: every wallet holds 1.
FundedWallets == [w \in {"sys", "alice", "bob"} |-> [balance |-> 1, is_frozen |-> FALSE]]

InitFunded ==
    /\ wallets = FundedWallets
    /\ system_accounts = {"sys"}
    /\ users = [w \in {"alice", "bob"} |-> [deleted_at |-> NULL]]
    /\ ledger = Funding
    /\ rowLock = [w \in {"sys", "alice", "bob"} |-> NoProc]
    /\ now = 1
    /\ pc = [p \in Procs |-> "idle"]
    /\ req = [p \in Procs |-> NoReq]
    /\ vars_local = [p \in Procs |-> NoLocal]
    /\ tx = [p \in Procs |-> EmptyTx]
    /\ outcome = [p \in Procs |-> "none"]

\* A transfer that arrives after the funding.
BeginFundedTransfer(p) == BeginInsert(p, TxTypes, Len(Funding) + MaxLedger)

\* validate_transaction_balance and the constraints for row r when its INSERT
\* runs alone on the wallets ws: the row is admitted.
Admitted(ws, r) ==
    /\ r.from \in DOMAIN ws
    /\ ~ws[r.from].is_frozen
    /\ IF is_self_transfer(r)
       THEN is_system_wallet(r.from)
       ELSE /\ r.to \in DOMAIN ws
            /\ ~ws[r.to].is_frozen
            /\ ~InsufficientBalance(ws[r.from].balance, r.amount)
    /\ amount_positive(r.amount)
    /\ created_at_positive(r.created_at)
    /\ transaction_type_valid(r.type)

\* update_wallet_balances for an admitted row r on the wallets ws.
Applied(ws, r) ==
    LET nb == NewBalances(r, ws[r.from].balance, ws[r.to].balance)
    IN [w \in DOMAIN ws |-> IF w \in DOMAIN nb THEN [ws[w] EXCEPT !.balance = nb[w]] ELSE ws[w]]

\* The INSERTs of rows, one after the other in this order, starting on the
\* wallets ws: whether all of them commit, and the wallets at the end.
RECURSIVE Replay(_, _)
Replay(ws, rows) ==
    IF rows = <<>> THEN [ok |-> TRUE, wallets |-> ws]
    ELSE IF ~Admitted(ws, Head(rows)) THEN [ok |-> FALSE, wallets |-> ws]
    ELSE LET nws == Applied(ws, Head(rows))
         IN IF \E w \in DOMAIN nws : ~balance_non_negative(nws[w].balance)
            THEN [ok |-> FALSE, wallets |-> ws]
            ELSE Replay(nws, Tail(rows))

\* The operator soft-deletes users while another session transfers between the
\* funded wallets and freezes and unfreezes them.
NextSoftDelete ==
    \/ \E p \in Procs \ {Operator} : BeginFundedTransfer(p)
    \/ \E p \in Procs \ {Operator} : LockSender(p)
    \/ \E p \in Procs \ {Operator} : LockRecipient(p)
    \/ \E p \in Procs \ {Operator} : InsertRow(p)
    \/ \E p \in Procs \ {Operator} : UpdateWalletBalances(p)
    \/ \E p \in Procs \ {Operator} : Commit(p)
    \/ \E p \in Procs \ {Operator}, w \in WalletIds, b \in BOOLEAN : SetFrozen(p, w, b)
    \/ \E u \in WalletIds : soft_delete_user(Operator, u)
    \/ Tick

SpecSoftDelete == InitFunded /\ [][NextSoftDelete]_vars

\* A ledger after which the system wallet holds one token less than BIGINT
\* can hold, alice as much as it can hold, and bob one token.
LargeFunding ==
    <<[from |-> "sys", to |-> "sys", amount |-> BIGINT_MAX, type |-> TRANSFER, created_at |-> 1],
      [from |-> "sys", to |-> "alice", amount |-> BIGINT_MAX, type |-> TRANSFER, created_at |-> 1],
      [from |-> "sys", to |-> "sys", amount |-> BIGINT_MAX, type |-> TRANSFER, created_at |-> 1],
      [from |-> "sys", to |-> "bob", amount |-> 1, type |-> TRANSFER, created_at |-> 1]>>
LargeWallets ==
    [w \in {"sys", "alice", "bob"} |->
        [balance |-> CASE w = "sys" -> BIGINT_MAX - 1 [] w = "alice" -> BIGINT_MAX [] OTHER -> 1,
         is_frozen |-> FALSE]]

InitLarge ==
    /\ wallets = LargeWallets
    /\ system_accounts = {"sys"}
    /\ users = [w \in {"alice", "bob"} |-> [deleted_at |-> NULL]]
    /\ ledger = LargeFunding
    /\ rowLock = [w \in {"sys", "alice", "bob"} |-> NoProc]
    /\ now = 1
    /\ pc = [p \in Procs |-> "idle"]
    /\ req = [p \in Procs |-> NoReq]
    /\ vars_local = [p \in Procs |-> NoLocal]
    /\ tx = [p \in Procs |-> EmptyTx]
    /\ outcome = [p \in Procs |-> "none"]

\* A transfer that arrives after the large funding.
BeginLargeTransfer(p) == BeginInsert(p, TxTypes, Len(LargeFunding) + MaxLedger)

\* Concurrent transfers and issuances on balances at the edge of BIGINT.
NextOverflow ==
    \/ \E p \in Procs : BeginLargeTransfer(p)
    \/ \E p \in Procs : LockSender(p)
    \/ \E p \in Procs : LockRecipient(p)
    \/ \E p \in Procs : InsertRow(p)
    \/ \E p \in Procs : UpdateWalletBalances(p)
    \/ \E p \in Procs : Commit(p)
    \/ \E p \in Procs : DeadlockAbort(p)

SpecOverflow == InitLarge /\ [][NextOverflow]_vars

\* Transfers of concurrent sessions arriving in any order on funded wallets.
NextOrder ==
    \/ \E p \in Procs : BeginFundedTransfer(p)
    \/ \E p \in Procs : LockSender(p)
    \/ \E p \in Procs : LockRecipient(p)
    \/ \E p \in Procs : InsertRow(p)
    \/ \E p \in Procs : UpdateWalletBalances(p)
    \/ \E p \in Procs : Commit(p)
    \/ \E p \in Procs : DeadlockAbort(p)

SpecOrder == InitFunded /\ [][NextOrder]_vars

\* A distribution that starts after the funding.
BeginFundedDistribute(p) == BeginBatch(p, Len(Funding) + MaxLedger)

\* Distributions of concurrent sessions from the funded system wallet.
NextTwoDistribute ==
    \/ \E p \in Procs : BeginFundedDistribute(p)
    \/ \E p \in Procs : ValidateBatch(p)
    \/ \E p \in Procs : ReadSourceBalance(p)
    \/ \E p \in Procs : NextLine(p)
    \/ \E p \in Procs : LockSender(p)
    \/ \E p \in Procs : LockRecipient(p)
    \/ \E p \in Procs : InsertRow(p)
    \/ \E p \in Procs : UpdateWalletBalances(p)
    \/ \E p \in Procs : Commit(p)

SpecTwoDistribute == InitFunded /\ [][NextTwoDistribute]_vars

\* ------------------------------------------------------------ history query
\* The filters of a history query: a time range [lo, hi) in milliseconds and
\* a transaction type (NULL: every type).
TimeRanges == {r \in (1..MaxTime) \X (1..(MaxTime + 1)) : r[1] <= r[2]}
TypeFilters == {NULL, TRANSFER, TRANSFER + 1}

\* WHERE t.from_wallet_id = :wallet_id OR t.to_wallet_id = :wallet_id
of_wallet(t, w) == t.from = w \/ t.to = w
\* WHERE t.created_at >= :lo AND t.created_at < :hi
in_time_range(t, lo, hi) == t.created_at >= lo /\ t.created_at < hi
\* WHERE t.transaction_type = :type
of_type(t, ty) == ty = NULL \/ t.type = ty

\* (variant) ORDER BY t.created_at ASC
created_at_asc(a, b) == a.created_at <= b.created_at
\* ORDER BY t.created_at DESC: row a may come right before row b.
created_at_desc(a, b) == a.created_at >= b.created_at

Orderings(n) == {f \in [1..n -> 1..n] : \A i, j \in 1..n : f[i] = f[j] => i = j}
\* The possible results of ORDER BY t.created_at DESC on rows: SQL leaves the
\* order of rows with equal created_at open.
OrderBy(rows) ==
    {[i \in 1..Len(rows) |-> rows[f[i]]] :
        f \in {g \in Orderings(Len(rows)) :
                 \A i \in 1..(Len(rows) - 1) : created_at_desc(rows[g[i]], rows[g[i + 1]])}}

\* (variant) the query also sees the uncommitted rows of session q.
DirtyRows(q) == ledger \o tx[q].rows
\* The rows of transactions a query of another session than q sees under
\* READ COMMITTED: the committed ones.
CommittedRows(q) == ledger

\* SELECT t.* FROM transactions t WHERE (t.from_wallet_id = :wallet_id OR
\* t.to_wallet_id = :wallet_id) AND <time range> AND <type>
\* ORDER BY t.created_at DESC, run by session p while session q may be in the
\* middle of a transfer.
GetHistory(p, q, w, range, ty) ==
    LET Matches(t) == of_wallet(t, w) /\ in_time_range(t, range[1], range[2]) /\ of_type(t, ty)
    IN \E res \in OrderBy(SelectSeq(CommittedRows(q), Matches)) :
          /\ Statement(p, [kind |-> "get_history", from |-> w, to |-> w, amount |-> 0,
                           type |-> ty, created_at |-> 0, row |-> 0,
                           lo |-> range[1], hi |-> range[2], result |-> res], "returned")
          /\ UNCHANGED <<wallets, ledger>>

\* One session's transfers while time passes and the operator queries the
\* history of a wallet.
NextHistory ==
    \/ \E p \in Procs \ {Operator} : BeginTransfer(p)
    \/ \E p \in Procs \ {Operator} : LockSender(p)
    \/ \E p \in Procs \ {Operator} : LockRecipient(p)
    \/ \E p \in Procs \ {Operator} : InsertRow(p)
    \/ \E p \in Procs \ {Operator} : UpdateWalletBalances(p)
    \/ \E p \in Procs \ {Operator} : Commit(p)
    \/ Tick
    \/ \E q \in Procs \ {Operator}, w \in DOMAIN wallets, range \in TimeRanges, ty \in TypeFilters :
          GetHistory(Operator, q, w, range, ty)

SpecHistory == Init /\ [][NextHistory]_vars

\* ----------------------------------------------------------- supply queries
\* SELECT SUM(t.amount) FROM transactions t WHERE t.from_wallet_id = t.to_wallet_id
\*   AND EXISTS (SELECT 1 FROM system_accounts sa WHERE sa.wallet_id = t.from_wallet_id)
RECURSIVE total_issuance(_)
total_issuance(rows) ==
    IF rows = <<>> THEN 0
    ELSE (IF Head(rows).from = Head(rows).to /\ Head(rows).from \in system_accounts
          THEN Head(rows).amount ELSE 0)
         + total_issuance(Tail(rows))

\* SELECT SUM(w.balance) FROM wallets w WHERE EXISTS
\*   (SELECT 1 FROM users u WHERE u.wallet_id = w.id AND u.deleted_at IS NULL)
circulation ==
    SumBalances(wallets, {w \in DOMAIN wallets :
                             w \in DOMAIN users /\ users[w].deleted_at = NULL})

\* SELECT sa.name, w.balance FROM system_accounts sa JOIN wallets w
\*   ON sa.wallet_id = w.id, summed.
system_pool == SumBalances(wallets, system_accounts)

\* =================================================================== claims
InFlight(p) == pc[p] \in {"lock_sender", "lock_recipient", "constraints", "after_insert", "commit",
                           "validate_batch", "read_balance", "next_line",
                           "app_debit", "app_credit"}
\* Session p's current request is a transfer that debits wallet w.
Debits(p, w) == req[p].kind = "insert" /\ req[p].from = w /\ req[p].to # w
\* Session p's current request is a self-transfer on wallet w.
Issues(p, w) == req[p].kind = "insert" /\ req[p].from = w /\ req[p].to = w
\* The step is the commit of session p's transfer.
CommitStep(p) == pc[p] = "commit" /\ pc'[p] = "done"
\* The step ends session p's transfer with an error.
RejectStep(p) == InFlight(p) /\ pc'[p] = "done" /\ outcome'[p] # "committed"

\* C1. Double-spend prevention. When a session commits a debit of wallet w,
\* every other in-flight transfer debiting w has not read w's balance yet (it
\* still waits for the row lock), so no two transfers are admitted on the same
\* balance; and every balance check decides on the committed balance of the
\* moment: with the recipient present and unfrozen the transfer is rejected
\* with 'Insufficient balance' exactly when that balance is below the amount.
\* So of two concurrent transfers of B from a wallet holding B the second one
\* to lock the wallet reads 0 and is rejected with InsufficientBalance.
C1_DoubleSpendPrevention ==
    [][\A p \in Procs, w \in DOMAIN wallets :
         /\ (Debits(p, w) /\ CommitStep(p)) =>
               \A q \in Procs \ {p} : (Debits(q, w) /\ InFlight(q)) => pc[q] = "lock_sender"
         /\ (/\ Debits(p, w) /\ pc[p] = "lock_recipient" /\ pc'[p] # "lock_recipient"
             /\ outcome'[p] # "deadlock detected"
             /\ req[p].to \in DOMAIN wallets /\ ~wallets[req[p].to].is_frozen) =>
               IF wallets[w].balance < req[p].amount
               THEN pc'[p] = "done" /\ outcome'[p] = "Insufficient balance"
               ELSE pc'[p] = "constraints"
      ]_vars

\* Two transfers of the same amount B from one wallet: one read the balance B
\* and committed, the other read 0 and was rejected.
C1_Witness ==
    \E p \in Procs, q \in Procs, w \in DOMAIN wallets :
        /\ p # q /\ Debits(p, w) /\ Debits(q, w)
        /\ pc[p] = "done" /\ outcome[p] = "committed"
        /\ pc[q] = "done" /\ outcome[q] = "Insufficient balance"
        /\ req[p].amount = req[q].amount
        /\ vars_local[p].sender_balance = req[p].amount
        /\ vars_local[q].sender_balance = 0

\* SUM(amount) FROM transactions WHERE from_wallet_id = to_wallet_id
RECURSIVE TotalIssuance(_)
TotalIssuance(rows) ==
    IF rows = <<>> THEN 0
    ELSE (IF Head(rows).from = Head(rows).to THEN Head(rows).amount ELSE 0)
         + TotalIssuance(Tail(rows))

\* C2. Conservation: in every committed state the sum of all wallet balances
\* equals the sum of the amounts of the transactions with from = to.
C2_Conservation ==
    SumBalances(wallets, DOMAIN wallets) = TotalIssuance(ledger)

\* An issuance and a transfer to a user wallet have been committed.
C2_Witness ==
    /\ Len(ledger) >= 2
    /\ \E i \in 1..Len(ledger) : ledger[i].from # ledger[i].to
    /\ \E w \in DOMAIN users : wallets[w].balance > 0

\* C3. Non-negativity: no committed wallet balance and no uncommitted row
\* version of a balance is negative; the balance check under the row lock
\* alone keeps it so, the CHECK (balance >= 0) backstop never has to reject.
C3_NonNegativity ==
    /\ \A w \in DOMAIN wallets : wallets[w].balance >= 0
    /\ \A p \in Procs : \A w \in DOMAIN tx[p].wallets : tx[p].wallets[w] >= 0
    /\ \A p \in Procs : outcome[p] # "balance_non_negative"

\* A committed transfer took the whole balance of its sender, leaving 0.
C3_Witness ==
    \E p \in Procs :
        /\ pc[p] = "done" /\ outcome[p] = "committed" /\ Debits(p, req[p].from)
        /\ req[p].amount > 0
        /\ wallets[req[p].from].balance = 0

\* The rows a step appends to the committed ledger.
NewRows == SubSeq(ledger', Len(ledger) + 1, Len(ledger'))
\* The committed ledger only grows: every row it holds stays, unchanged.
LedgerGrows == Len(ledger') >= Len(ledger) /\ SubSeq(ledger', 1, Len(ledger)) = ledger

\* The change of wallet w's balance that the rows call for: credited as
\* recipient, debited as sender unless the row is a self-transfer.
RECURSIVE EffectOn(_, _)
EffectOn(rows, w) ==
    IF rows = <<>> THEN 0
    ELSE (IF Head(rows).to = w THEN Head(rows).amount ELSE 0)
         - (IF Head(rows).from = w /\ Head(rows).to # w THEN Head(rows).amount ELSE 0)
         + EffectOn(Tail(rows), w)

\* C4. Atomic visibility: every step changes the committed ledger and the
\* committed balances together: the balances change by exactly the effects of
\* the rows the step appends, so no committed state holds a row without its
\* balance effects or a balance effect without its row.
C4_AtomicVisibility ==
    [][/\ LedgerGrows
       /\ \A w \in DOMAIN wallets :
             wallets'[w].balance = wallets[w].balance + EffectOn(NewRows, w)
      ]_vars

\* A session has inserted its row and not yet updated the balances: the row
\* is in no committed state.
C4_Witness ==
    \E p \in Procs :
        /\ pc[p] = "after_insert" /\ Len(tx[p].rows) = 1
        /\ req[p].amount > 0 /\ req[p].from # req[p].to
        /\ \A i \in 1..Len(ledger) : ledger[i] # tx[p].rows[1]

\* C5. Immutability: every UPDATE and every DELETE of a committed transaction
\* is rejected, and in every step the ledger keeps every committed row with
\* its from, to, amount, type and created_at.
C5_Immutability ==
    [][/\ LedgerGrows
       /\ \A p \in Procs :
             (req'[p].kind \in {"update_transaction", "delete_transaction"} /\ req'[p] # req[p]) =>
                /\ outcome'[p] = "Transactions are immutable and cannot be modified or deleted"
                /\ ledger' = ledger
      ]_vars

\* An UPDATE and a DELETE of committed rows were attempted and rejected.
C5_Witness ==
    \E p \in Procs, q \in Procs :
        /\ req[p].kind = "update_transaction" /\ req[p].row \in 1..Len(ledger)
        /\ req[p].amount # ledger[req[p].row].amount
        /\ outcome[p] = "Transactions are immutable and cannot be modified or deleted"
        /\ req[q].kind = "delete_transaction" /\ req[q].row \in 1..Len(ledger)
        /\ outcome[q] = "Transactions are immutable and cannot be modified or deleted"

C9_TransferEffect ==
    [][\A p \in Procs :
         (CommitStep(p) /\ Debits(p, req[p].from)) =>
            LET r == req[p] IN
            /\ ledger' = Append(ledger, RowOf(r))
            /\ wallets'[r.from].balance = wallets[r.from].balance - r.amount
            /\ wallets'[r.to].balance = wallets[r.to].balance + r.amount
            /\ \A v \in DOMAIN wallets \ {r.from, r.to} : wallets'[v].balance = wallets[v].balance
            /\ \A v \in DOMAIN wallets : wallets'[v].is_frozen = wallets[v].is_frozen
            /\ DOMAIN wallets' = DOMAIN wallets
      ]_vars

\* A transfer between two different wallets has committed; a third wallet exists.
C9_Witness ==
    \E p \in Procs :
        /\ pc[p] = "done" /\ outcome[p] = "committed" /\ Debits(p, req[p].from)
        /\ ledger[Len(ledger)] = RowOf(req[p])
        /\ wallets[req[p].to].balance = req[p].amount
        /\ DOMAIN wallets \ {req[p].from, req[p].to} # {}

\* C6. No mutation on failure: a step that ends a transfer with an error
\* changes no committed wallet row (balance, frozen flag) and no ledger row,
\* and leaves the session with no uncommitted write and no row lock; balances
\* and the ledger change only in the commit step of a transfer.
C6_NoMutationOnFailure ==
    [][/\ \A p \in Procs :
             (RejectStep(p) /\ req[p].kind = "insert") =>
                /\ wallets' = wallets
                /\ ledger' = ledger
                /\ tx'[p] = EmptyTx
                /\ \A w \in DOMAIN rowLock' : rowLock'[w] # p
       /\ (ledger' # ledger \/ \E w \in DOMAIN wallets : wallets'[w].balance # wallets[w].balance)
             => \E p \in Procs : CommitStep(p)
      ]_vars

\* Transfers were rejected after their session had locked the sender row: one
\* for insufficient balance, one for a frozen recipient.
C6_Witness ==
    \E p \in Procs, q \in Procs :
        /\ pc[p] = "done" /\ req[p].kind = "insert" /\ outcome[p] = "Insufficient balance"
        /\ pc[q] = "done" /\ req[q].kind = "insert" /\ outcome[q] = "Recipient wallet is frozen"
        /\ Len(ledger) >= 1

\* C7 as claimed. A self-transfer on an existing wallet that no system account
\* owns always ends with UnauthorizedIssuance, whatever the state of the
\* wallet, and changes neither a balance nor the ledger.
C7_AsClaimed ==
    [][\A p \in Procs, w \in DOMAIN wallets :
         (Issues(p, w) /\ w \notin system_accounts /\ pc[p] = "lock_sender" /\ pc'[p] # pc[p]) =>
            /\ pc'[p] = "done"
            /\ ErrorKind(outcome'[p]) = "UnauthorizedIssuance"
            /\ wallets' = wallets /\ ledger' = ledger
      ]_vars

\* C7, amended. A self-transfer on an existing wallet that no system account
\* owns always fails and changes neither a balance nor the ledger, whatever
\* the balance and the amount: with WalletFrozen when the wallet is frozen,
\* with UnauthorizedIssuance otherwise.
C7_IssuanceAuthority ==
    [][\A p \in Procs, w \in DOMAIN wallets :
         (Issues(p, w) /\ w \notin system_accounts /\ pc[p] = "lock_sender" /\ pc'[p] # pc[p]) =>
            /\ pc'[p] = "done"
            /\ ErrorKind(outcome'[p]) =
                  IF wallets[w].is_frozen THEN "WalletFrozen" ELSE "UnauthorizedIssuance"
            /\ wallets' = wallets /\ ledger' = ledger
      ]_vars

\* A self-transfer on an unfrozen user wallet with a positive balance was
\* rejected as unauthorized issuance.
C7_Witness ==
    \E p \in Procs, w \in DOMAIN users :
        /\ Issues(p, w) /\ pc[p] = "done"
        /\ outcome[p] = "Only system account wallets can perform self-transfers (issuance)"
        /\ wallets[w].balance > 0 /\ ~wallets[w].is_frozen

\* The first violated precondition of transfer r in the claimed order:
\* amount, from exists, from not frozen, to exists, to not frozen, balance.
ClaimedFirstError(r) ==
    IF r.amount <= 0 THEN "InvalidAmount"
    ELSE IF r.from \notin DOMAIN wallets THEN "WalletNotFound"
    ELSE IF wallets[r.from].is_frozen THEN "WalletFrozen"
    ELSE IF r.to \notin DOMAIN wallets THEN "WalletNotFound"
    ELSE IF wallets[r.to].is_frozen THEN "WalletFrozen"
    ELSE IF wallets[r.from].balance < r.amount THEN "InsufficientBalance"
    ELSE "none"

\* The first violated precondition of transfer r with the amount check after
\* the four wallet checks.
AmendedFirstError(r) ==
    IF r.from \notin DOMAIN wallets THEN "Sender wallet not found"
    ELSE IF wallets[r.from].is_frozen THEN "Sender wallet is frozen"
    ELSE IF r.to \notin DOMAIN wallets THEN "Recipient wallet not found"
    ELSE IF wallets[r.to].is_frozen THEN "Recipient wallet is frozen"
    ELSE IF r.amount <= 0 THEN "amount_positive"
    ELSE IF wallets[r.from].balance < r.amount THEN "Insufficient balance"
    ELSE "none"

\* The step ends session p's transfer with from # to, by an error of the
\* transfer itself or by its commit.
EndsTransfer(p) ==
    /\ InFlight(p) /\ pc'[p] = "done" /\ req[p].kind = "insert" /\ req[p].from # req[p].to
    /\ outcome'[p] # "deadlock detected"

\* C10 as claimed. A transfer with from # to that ends with an error ends with
\* the error of the first violated check in the order amount > 0, from exists,
\* from not frozen, to exists, to not frozen, from balance >= amount.
C10_AsClaimed ==
    [][\A p \in Procs :
         (EndsTransfer(p) /\ outcome'[p] # "committed") =>
            ErrorKind(outcome'[p]) = ClaimedFirstError(req[p])
      ]_vars

\* C10, amended. A transfer with from # to ends with the error of the first
\* violated check in the order from exists, from not frozen, to exists, to not
\* frozen, amount > 0, from balance >= amount, and commits when none is
\* violated; amount <= 0 with a nonexistent sender yields WalletNotFound.
C10_PreconditionOrder ==
    [][\A p \in Procs :
         EndsTransfer(p) =>
            IF AmendedFirstError(req[p]) = "none"
            THEN outcome'[p] = "committed"
            ELSE outcome'[p] = AmendedFirstError(req[p])
      ]_vars

\* Transfers violating several preconditions at once were rejected: amount 0
\* from a nonexistent sender, and amount 0 to a frozen recipient.
C10_Witness ==
    \E p \in Procs, q \in Procs :
        /\ pc[p] = "done" /\ req[p].kind = "insert" /\ req[p].amount = 0
        /\ req[p].from \notin DOMAIN wallets /\ req[p].to \in DOMAIN wallets
        /\ outcome[p] = "Sender wallet not found"
        /\ pc[q] = "done" /\ req[q].kind = "insert" /\ req[q].amount = 0
        /\ req[q].from \in DOMAIN wallets /\ req[q].to \in DOMAIN wallets
        /\ req[q].from # req[q].to
        /\ outcome[q] = "Recipient wallet is frozen"

\* C11. Frozen wallets neither send nor receive: the commit of a transfer finds
\* neither its sender nor its recipient frozen, before and after the commit,
\* and no step changes the balance of a wallet that is frozen before or after
\* the step; a freeze issued while a transfer holds the wallet's row lock waits
\* for the transfer to end, a freeze issued before the lock is taken makes the
\* transfer fail.
C11_FrozenWalletsInert ==
    [][/\ \A p \in Procs :
             (CommitStep(p) /\ req[p].kind = "insert") =>
                /\ ~wallets[req[p].from].is_frozen /\ ~wallets[req[p].to].is_frozen
                /\ ~wallets'[req[p].from].is_frozen /\ ~wallets'[req[p].to].is_frozen
       /\ \A w \in DOMAIN wallets :
             (wallets[w].is_frozen \/ wallets'[w].is_frozen) =>
                wallets'[w].balance = wallets[w].balance
      ]_vars

\* A transfer that holds its sender's row lock and has the balance it needs
\* finds its recipient frozen by the other session's freeze.
C11_Witness ==
    \E p \in Procs, q \in Procs :
        /\ p # q /\ pc[p] = "lock_recipient" /\ Debits(p, req[p].from)
        /\ rowLock[req[p].from] = p
        /\ req[p].amount > 0 /\ vars_local[p].sender_balance >= req[p].amount
        /\ req[p].to \in DOMAIN wallets /\ wallets[req[p].to].is_frozen
        /\ req[q].kind = "freeze" /\ req[q].from = req[p].to /\ outcome[q] = "committed"

\* C12. System wallets are never frozen: in every state reached by wallet
\* creation, owner provisioning, freeze/unfreeze and transfers, no wallet that
\* a system account owns has is_frozen = TRUE.
C12_SystemWalletsNeverFrozen ==
    \A w \in system_accounts : ~wallets[w].is_frozen

\* C13. Deadlock avoidance by lock order: the row locks of the two wallets of
\* a transfer are taken in one fixed order over wallet ids, whichever is the
\* sender, so no two sessions ever wait for each other: there is no state in
\* which p waits for a row lock that q holds while q waits for one that p holds.
C13_NoCircularWait ==
    \A p \in Procs, q \in Procs : ~(WaitsFor(p, q) /\ WaitsFor(q, p))

\* Session p runs a distribution.
Distributes(p) == req[p].kind = "distribute"
\* The rows of the lines of distribution r, one per line, in order.
LineRows(r) ==
    [i \in 1..Len(r.lines) |->
        [from |-> r.from, to |-> r.lines[i].to, amount |-> r.lines[i].amount,
         type |-> r.type, created_at |-> r.created_at]]
\* The rows distribution r is to add when the source holds b: one issuance of
\* the shortfall if there is one, then the lines.
DistributionRows(r, b) ==
    (IF totalRequested(r.lines) > b
     THEN <<[from |-> r.from, to |-> r.from, amount |-> totalRequested(r.lines) - b,
             type |-> r.type, created_at |-> r.created_at]>>
     ELSE <<>>) \o LineRows(r)
\* Session p is inside an INSERT of its distribution that is the issuance.
InIssuanceOfDistribute(p) ==
    /\ Distributes(p) /\ req[p].line = 0
    /\ pc[p] \in {"lock_sender", "lock_recipient", "constraints", "after_insert"}

\* C14. Exact shortfall issuance: a distribution from a system wallet holding
\* b with lines summing to T commits exactly one issuance of T - b followed by
\* its lines when T > b, and its lines alone when T <= b; the issuance is
\* never rejected; and no other operation issues on its own: the commit of a
\* single transfer adds its one row, and every other step adds none.
C14_ExactShortfallIssuance ==
    [][/\ \A p \in Procs :
             /\ (CommitStep(p) /\ Distributes(p)) =>
                    NewRows = DistributionRows(req[p], wallets[req[p].from].balance)
             /\ InIssuanceOfDistribute(p) => ~RejectStep(p)
             /\ (CommitStep(p) /\ req[p].kind = "insert") => NewRows = <<RowOf(req[p])>>
       /\ (ledger' # ledger) => \E p \in Procs : CommitStep(p)
      ]_vars

\* A distribution of T = 2 from a source holding b = 1 has committed: the
\* ledger ends with the issuance of 1 and the two lines.
C14_Witness ==
    \E p \in Procs :
        /\ Distributes(p) /\ pc[p] = "done" /\ outcome[p] = "committed"
        /\ req[p].currentBalance = 1 /\ totalRequested(req[p].lines) = 2
        /\ Len(ledger) >= 3
        /\ SubSeq(ledger, Len(ledger) - 2, Len(ledger)) = DistributionRows(req[p], 1)

\* C15. Atomic distribution: the step in which a line (or any statement) of a
\* distribution fails leaves every committed balance and the ledger as they
\* were before the distribution started, discards the issuance and the lines
\* already written and releases the locks; nothing a distribution writes is
\* committed before its commit step.
C15_AtomicDistribution ==
    [][\A p \in Procs :
         Distributes(p) =>
            /\ RejectStep(p) =>
                  /\ wallets' = wallets /\ ledger' = ledger
                  /\ tx'[p] = EmptyTx
                  /\ \A w \in DOMAIN rowLock' : rowLock'[w] # p
            /\ (InFlight(p) /\ ~CommitStep(p) /\ \A q \in Procs \ {p} : ~CommitStep(q)) =>
                  wallets' = wallets /\ ledger' = ledger
      ]_vars

\* A distribution failed on its second line (a nonexistent recipient) after
\* its auto-issuance and its first line had been written: nothing of it is in
\* the ledger, and the first recipient's balance is what the ledger gives it.
C15_Witness ==
    \E p \in Procs :
        /\ Distributes(p) /\ pc[p] = "done" /\ outcome[p] = "Recipient wallet not found"
        /\ req[p].line = 2 /\ totalRequested(req[p].lines) > req[p].currentBalance
        /\ req[p].lines[1].to \in DOMAIN wallets
        /\ ledger = <<>>
        /\ \A w \in DOMAIN wallets : wallets[w].balance = 0

\* The sum of the amounts of the lines of a batch that name recipient w.
RECURSIVE SumTo(_, _)
SumTo(lines, w) ==
    IF lines = <<>> THEN 0
    ELSE (IF Head(lines).to = w THEN Head(lines).amount ELSE 0) + SumTo(Tail(lines), w)

\* C16. Distribution result: the commit of a distribution from a source
\* holding b with lines summing to T credits every recipient with the sum of
\* the amounts of its lines, leaves the source at max(b - T, 0), changes no
\* other balance, and adds one transaction per line plus one issuance exactly
\* when T > b.
C16_DistributionResult ==
    [][\A p \in Procs :
         (CommitStep(p) /\ Distributes(p)) =>
            LET r == req[p]
                b == wallets[r.from].balance
                T == totalRequested(r.lines)
            IN /\ \A w \in DOMAIN wallets \ {r.from} :
                     wallets'[w].balance = wallets[w].balance + SumTo(r.lines, w)
               /\ wallets'[r.from].balance = IF b - T > 0 THEN b - T ELSE 0
               /\ Len(NewRows) = Len(r.lines) + (IF T > b THEN 1 ELSE 0)
      ]_vars

\* The source held 0; the lines (alice, 1), (bob, 1) were distributed: issuance
\* of 2, alice and bob hold 1 each, the source holds 0, 3 transactions.
C16_Witness ==
    \E p \in Procs :
        /\ Distributes(p) /\ pc[p] = "done" /\ outcome[p] = "committed"
        /\ req[p].currentBalance = 0
        /\ req[p].lines = <<[to |-> "alice", amount |-> 1], [to |-> "bob", amount |-> 1]>>
        /\ ledger = DistributionRows(req[p], 0)
        /\ wallets["alice"].balance = 1 /\ wallets["bob"].balance = 1
        /\ wallets[req[p].from].balance = 0

\* C17. Supply identity: in every state, total issuance (the self-transfers on
\* system wallets) equals circulating supply (the balances of the wallets of
\* users with deleted_at IS NULL) plus system pool (the balances of the
\* wallets of system accounts).
C17_SupplyIdentity ==
    total_issuance(ledger) = circulation + system_pool

\* Row r involves wallet w.
Involves(r, w) == r.from = w \/ r.to = w

\* C18. Timestamp order: the ledger holds the transactions in commit order;
\* for any wallet, a transaction involving the wallet that committed before
\* another one involving it has a created_at that is not later.
C18_TimestampOrder ==
    \A i \in 1..Len(ledger), j \in 1..Len(ledger), w \in DOMAIN wallets :
        (i < j /\ Involves(ledger[i], w) /\ Involves(ledger[j], w)) =>
            ledger[i].created_at <= ledger[j].created_at

\* Row r satisfies what validate_transaction_balance and the CHECK constraints
\* of transactions admit, in the committed state before the commit: a positive
\* amount, existing and unfrozen wallets, a self-transfer only on a system
\* wallet.
Validated(r) ==
    /\ r.amount > 0
    /\ r.from \in DOMAIN wallets /\ r.to \in DOMAIN wallets
    /\ ~wallets[r.from].is_frozen /\ ~wallets[r.to].is_frozen
    /\ (r.from = r.to) => r.from \in system_accounts

C20_NoAutoIssuance ==
    [][\A p \in Procs, w \in system_accounts :
         (/\ Debits(p, w) /\ pc[p] = "lock_recipient" /\ pc'[p] # "lock_recipient"
          /\ outcome'[p] # "deadlock detected"
          /\ req[p].to \in DOMAIN users /\ req[p].to \in DOMAIN wallets
          /\ ~wallets[req[p].to].is_frozen
          /\ req[p].amount > wallets[w].balance) =>
            /\ pc'[p] = "done" /\ ErrorKind(outcome'[p]) = "InsufficientBalance"
            /\ wallets' = wallets /\ ledger' = ledger
            /\ tx'[p] = EmptyTx
      ]_vars

\* A transfer of 1 from the system wallet holding 0 to a user wallet was
\* rejected with InsufficientBalance; the ledger holds no issuance.
C20_Witness ==
    \E p \in Procs, w \in system_accounts :
        /\ Debits(p, w) /\ req[p].to \in DOMAIN users
        /\ pc[p] = "done" /\ outcome[p] = "Insufficient balance"
        /\ req[p].amount = 1 /\ wallets[w].balance = 0
        /\ TotalIssuance(ledger) = 0

\* RAISE EXCEPTION 'Insufficient balance: has %, needs %', sender_balance,
\* NEW.amount: the two values the message of session p's rejection carries.
InsufficientBalanceMessage(p) ==
    [has |-> vars_local[p].sender_balance, needs |-> req[p].amount]

\* C21. InsufficientBalance diagnostics are current. When a transfer is
\* rejected with 'Insufficient balance', the balance its message reports is
\* the sender's committed balance at the moment of the rejection (the balance
\* after every transfer committed before it), that balance is below the
\* reported need, and the reported need is the requested amount.
C21_CurrentDiagnostics ==
    [][\A p \in Procs :
         (RejectStep(p) /\ outcome'[p] = "Insufficient balance") =>
             /\ InsufficientBalanceMessage(p)'.has = wallets[req[p].from].balance
             /\ InsufficientBalanceMessage(p)'.needs = req[p].amount
             /\ InsufficientBalanceMessage(p)'.has < InsufficientBalanceMessage(p)'.needs
             /\ wallets' = wallets]_vars

\* A transfer from a wallet that a transfer committed just before it had
\* emptied is rejected with has 0, needs 1.
C21_Witness ==
    \E p \in Procs :
        /\ pc[p] = "done" /\ outcome[p] = "Insufficient balance"
        /\ InsufficientBalanceMessage(p) = [has |-> 0, needs |-> 1]
        /\ Len(ledger) = 2
        /\ ledger[1].from = ledger[1].to /\ ledger[1].to = req[p].from
        /\ ledger[2].from = req[p].from /\ ledger[2].to # req[p].from
        /\ ledger[2].amount = 1

\* The wallets the transfer of session p touches.
WalletSet(p) == {req[p].from, req[p].to}
\* The next step of session p's transfer.
TransferStep(p) ==
    \/ LockSender(p)
    \/ LockRecipient(p)
    \/ InsertRow(p)
    \/ UpdateWalletBalances(p)
    \/ Commit(p)
\* No other in-flight transfer touches a wallet of session p's transfer.
DisjointFromInFlight(p) ==
    \A q \in Procs \ {p} : InFlight(q) => WalletSet(p) \cap WalletSet(q) = {}

\* C22. Parallelism on disjoint wallets. An in-flight transfer whose wallets
\* are disjoint from the wallets of every other in-flight transfer is never
\* blocked: whatever rows the others hold, its next step (locking its sender,
\* locking its recipient, inserting, updating the balances, committing) can
\* be taken at once, and no row it needs is held by another session.
C22_DisjointParallelism ==
    \A p \in Procs :
        (InFlight(p) /\ DisjointFromInFlight(p)) =>
            /\ ENABLED TransferStep(p)
            /\ \A w \in WalletSet(p) \cap DOMAIN wallets : rowLock[w] \in {NoProc, p}

\* One transfer holds both its rows and is about to commit while another
\* transfer on a disjoint wallet holds its sender row.
C22_Witness ==
    \E p \in Procs, q \in Procs :
        /\ p # q /\ pc[p] = "commit" /\ InFlight(q)
        /\ req[p].from # req[p].to
        /\ WalletSet(p) \cap WalletSet(q) = {}
        /\ req[q].from \in DOMAIN wallets
        /\ rowLock[req[p].from] = p /\ rowLock[req[p].to] = p
        /\ rowLock[req[q].from] = q

\* Session p holds the row lock of some wallet.
HoldsLock(p) == \E w \in DOMAIN rowLock : rowLock[w] = p

\* C23. No leaked locks. A session whose transfer has ended (committed,
\* rejected, aborted by the deadlock detector or cancelled by its deadline)
\* holds no row lock and no uncommitted write; and a step that ends a transfer
\* without committing it leaves the ledger and every wallet as they were.
C23_NoLeakedLocks ==
    /\ [](\A p \in Procs : pc[p] \in {"idle", "done"} => ~HoldsLock(p) /\ tx[p] = EmptyTx)
    /\ [][\A p \in Procs :
            (InFlight(p) /\ pc'[p] = "done") =>
                /\ ~HoldsLock(p)'
                /\ outcome'[p] # "committed" => (ledger' = ledger /\ wallets' = wallets)]_vars

\* A transfer that had locked its sender (it read the balance 1 under the
\* lock) was cancelled: it holds nothing, the sender still has 1 and the
\* ledger only holds the issuance.
C23_Witness ==
    \E p \in Procs :
        /\ pc[p] = "done" /\ outcome[p] = "Cancelled"
        /\ req[p].from # req[p].to /\ req[p].amount = 1
        /\ vars_local[p].sender_balance = 1
        /\ wallets[req[p].from].balance = 1
        /\ Len(ledger) = 1
        /\ ~HoldsLock(p)

\* The step is a history query of session p.
QueryStep(p) ==
    /\ req'[p].kind = "get_history"
    /\ <<req[p], pc[p], outcome[p]>> # <<req'[p], pc'[p], outcome'[p]>>

\* C24. History query. The result of a history query for wallet w holds
\* exactly the committed transactions that have w as sender or recipient, lie
\* in the time range and have the requested type, each of them once, in
\* non-increasing order of created_at; the query changes no wallet and no
\* transaction.
C24_HistoryQuery ==
    [][\A p \in Procs :
         QueryStep(p) =>
            LET q == req'[p]
                res == q.result
                Matching == {i \in 1..Len(ledger) :
                               /\ ledger[i].from = q.from \/ ledger[i].to = q.from
                               /\ q.lo <= ledger[i].created_at /\ ledger[i].created_at < q.hi
                               /\ q.type # NULL => ledger[i].type = q.type}
            IN /\ Len(res) = Cardinality(Matching)
               /\ \E f \in [1..Len(res) -> Matching] :
                     /\ \A i, j \in 1..Len(res) : f[i] = f[j] => i = j
                     /\ \A i \in 1..Len(res) : res[i] = ledger[f[i]]
               /\ \A i, j \in 1..Len(res) : i < j => res[i].created_at >= res[j].created_at
               /\ wallets' = wallets /\ ledger' = ledger]_vars

\* A query returned the two transactions of the wallet, the newer one first,
\* the reverse of the order in which they were committed.
C24_Witness ==
    /\ req[Operator].kind = "get_history" /\ outcome[Operator] = "returned"
    /\ Len(ledger) = 2 /\ ledger[1].created_at < ledger[2].created_at
    /\ req[Operator].result = <<ledger[2], ledger[1]>>

\* The request r names a missing wallet, or has an amount or a type code out
\* of range.
IllFormed(r) ==
    \/ r.amount <= 0
    \/ r.type \notin 1..99
    \/ r.from \notin DOMAIN wallets
    \/ r.to \notin DOMAIN wallets

\* C25. Ledger record well-formedness. Every committed transaction has an
\* amount above 0, a type code in 1..99 and a sender and a recipient that are
\* existing wallets (a wallet named by a transaction cannot be deleted); an
\* insert whose amount, type code or wallets violate this ends rejected, with
\* the ledger and every balance unchanged.
C25_WellFormedLedger ==
    /\ [](\A i \in 1..Len(ledger) :
             /\ ledger[i].amount > 0
             /\ ledger[i].type \in 1..99
             /\ ledger[i].from \in DOMAIN wallets
             /\ ledger[i].to \in DOMAIN wallets)
    /\ [][\A p \in Procs :
            (req[p].kind = "insert" /\ InFlight(p) /\ pc'[p] = "done" /\ IllFormed(req[p])) =>
                /\ outcome'[p] # "committed"
                /\ ledger' = ledger /\ wallets' = wallets]_vars

\* With a transaction of type 99 committed, an issuance of 1 on the system
\* wallet with type code 100 was rejected by the type constraint.
C25_Witness ==
    \E p \in Procs :
        /\ pc[p] = "done" /\ outcome[p] = "transaction_type_valid"
        /\ req[p].type = 100 /\ req[p].amount = 1
        /\ req[p].from = "sys" /\ req[p].to = "sys"
        /\ Len(ledger) = 1 /\ ledger[1].type = 99
        /\ wallets["sys"].balance = 1

\* The transfers committed since the funding, in commit order.
Arrived == SubSeq(ledger, Len(Funding) + 1, Len(ledger))
\* The sequence rows rearranged by f.
Rearranged(rows, f) == [i \in 1..Len(rows) |-> rows[f[i]]]

\* C26. Order independence. The committed balances are those of running the
\* committed transfers one after the other in their commit order, and every
\* other arrival order of the same transfers in which every one of them
\* commits ends with the same balance in every wallet.
C26_OrderIndependence ==
    /\ Replay(FundedWallets, Arrived).ok
    /\ Replay(FundedWallets, Arrived).wallets = wallets
    /\ \A f \in Orderings(Len(Arrived)) :
          Replay(FundedWallets, Rearranged(Arrived, f)).ok =>
              Replay(FundedWallets, Rearranged(Arrived, f)).wallets = wallets

\* alice paid bob 1 and then bob paid alice 1, each holding 1 at the start:
\* the two transfers commit in the other order too.
C26_Witness ==
    /\ Len(Arrived) = 2
    /\ Arrived[1].from = "alice" /\ Arrived[1].to = "bob" /\ Arrived[1].amount = 1
    /\ Arrived[2].from = "bob" /\ Arrived[2].to = "alice" /\ Arrived[2].amount = 1
    /\ Replay(FundedWallets, <<Arrived[2], Arrived[1]>>).ok
    /\ wallets["alice"].balance = 1 /\ wallets["bob"].balance = 1

LinesTo(lines, w) == SelectSeq(lines, LAMBDA l : l.to = w)
\* The rows among rows that go from wallet f to wallet w, in order.
RowsFromTo(rows, f, w) == SelectSeq(rows, LAMBDA t : t.from = f /\ t.to = w)

\* C28. Duplicate recipients stay separate. When a distribution commits, every
\* recipient named by k lines of the batch gets exactly k new transactions
\* from the source, the i-th with the amount of its i-th line (nothing is
\* merged), and its balance grows by the sum of the k amounts.
C28_DuplicatesStaySeparate ==
    [][\A p \in Procs :
         (CommitStep(p) /\ Distributes(p)) =>
            \A w \in {req[p].lines[i].to : i \in 1..Len(req[p].lines)} :
               LET mine == LinesTo(req[p].lines, w)
                   rows == RowsFromTo(NewRows, req[p].from, w)
               IN /\ Len(rows) = Len(mine)
                  /\ \A i \in 1..Len(mine) : rows[i].amount = mine[i].amount
                  /\ wallets'[w].balance = wallets[w].balance + totalRequested(mine)
      ]_vars

\* The batch (alice, 1), (alice, 1) was distributed from an empty source: the
\* ledger holds the issuance of 2 and two transactions of 1 to alice, who
\* holds 2.
C28_Witness ==
    \E p \in Procs :
        /\ Distributes(p) /\ pc[p] = "done" /\ outcome[p] = "committed"
        /\ req[p].lines = <<[to |-> "alice", amount |-> 1], [to |-> "alice", amount |-> 1]>>
        /\ Len(ledger) = 3
        /\ ledger[1].from = ledger[1].to /\ ledger[1].amount = 2
        /\ ledger[2] = ledger[3] /\ ledger[2].to = "alice" /\ ledger[2].amount = 1
        /\ wallets["alice"].balance = 2

\* The owners that reference wallet w: its user row (users.wallet_id is UNIQUE)
\* and its system account row (system_accounts.wallet_id is UNIQUE).
OwnersOf(w) ==
    {<<"user", u>> : u \in {x \in DOMAIN users : x = w}}
        \cup {<<"system_account", a>> : a \in {x \in system_accounts : x = w}}

\* C29. Owner uniqueness. Every wallet is referenced by at most one owner in
\* total: never by both a user and a system account.
C29_OwnerUniqueness ==
    \A w \in WalletIds :
        /\ Cardinality(OwnersOf(w)) <= 1
        /\ ~(w \in DOMAIN users /\ w \in system_accounts)

\* The step is a statement of session p that writes is_frozen = TRUE on
\* wallet w: an UPDATE of the row or an INSERT of a row with that id.
FreezeRequestStep(p, w) ==
    /\ req'[p].kind \in {"freeze", "create_frozen_wallet"}
    /\ req'[p].from = w
    /\ <<req[p], pc[p], outcome[p]>> # <<req'[p], pc'[p], outcome'[p]>>

\* C30. Freeze request on a system wallet. A statement that writes
\* is_frozen = TRUE on a wallet a system account owns, an UPDATE or an INSERT,
\* is rejected with 'System wallets cannot be frozen' and leaves every wallet
\* as it was. On a wallet no system account owns the trigger lets it pass:
\* the UPDATE commits, sets the flag and keeps the balance, the INSERT of a new
\* id commits a frozen wallet (an INSERT of an id that exists fails on the
\* primary key, whatever its is_frozen). No such statement changes the ledger.
C30_SystemFreezeRequest ==
    [][\A p \in Procs, w \in WalletIds :
         FreezeRequestStep(p, w) =>
            /\ ledger' = ledger
            /\ IF w \in system_accounts
               THEN outcome'[p] = "System wallets cannot be frozen" /\ wallets' = wallets
               ELSE IF req'[p].kind = "freeze"
               THEN /\ outcome'[p] = "committed"
                    /\ wallets' = [wallets EXCEPT ![w].is_frozen = TRUE]
               ELSE IF w \notin DOMAIN wallets
               THEN /\ outcome'[p] = "committed"
                    /\ wallets' = (w :> [balance |-> 0, is_frozen |-> TRUE]) @@ wallets
               ELSE outcome'[p] = "wallets_pkey" /\ wallets' = wallets
      ]_vars

\* With alice's wallet frozen by an earlier request, the UPDATE that would
\* freeze the system wallet, which holds 1, was rejected: the wallet is
\* unfrozen and still holds 1.
C30_Witness ==
    /\ req[Operator].kind = "freeze" /\ req[Operator].from = "sys"
    /\ outcome[Operator] = "System wallets cannot be frozen"
    /\ ~wallets["sys"].is_frozen /\ wallets["sys"].balance = 1
    /\ wallets["alice"].is_frozen

\* Session p runs the application-layer transfer.
AppTransfers(p) == req[p].kind = "app_transfer"
\* A single trigger-validated INSERT of request r would be rejected on the
\* committed wallets.
SingleInsertRejects(r) ==
    \/ r.from \notin DOMAIN wallets
    \/ r.to \notin DOMAIN wallets
    \/ wallets[r.from].is_frozen
    \/ wallets[r.to].is_frozen
    \/ wallets[r.from].balance < r.amount
    \/ r.amount <= 0

\* C31. Layered defenses agree. The application-layer transfer, run with the
\* triggers installed, ends like a single trigger-validated INSERT: it is
\* rejected only when that INSERT would be (sender balance below the amount, a
\* frozen or missing wallet, a non-positive amount), and its commit debits the
\* sender by the amount once and credits the recipient by the amount once.
C31_LayersAgree ==
    [][\A p \in Procs :
         AppTransfers(p) =>
            /\ (RejectStep(p) /\ outcome'[p] # "deadlock detected") => SingleInsertRejects(req[p])
            /\ CommitStep(p) =>
                  /\ wallets'[req[p].from].balance = wallets[req[p].from].balance - req[p].amount
                  /\ wallets'[req[p].to].balance = wallets[req[p].to].balance + req[p].amount
      ]_vars

\* The sum of the amounts of the committed transactions with to_wallet_id = w.
RECURSIVE Received(_, _)
Received(rows, w) ==
    IF rows = <<>> THEN 0
    ELSE (IF Head(rows).to = w THEN Head(rows).amount ELSE 0) + Received(Tail(rows), w)
\* The sum of the amounts of the committed transactions with from_wallet_id = w
\* that are no self-transfers.
RECURSIVE Sent(_, _)
Sent(rows, w) ==
    IF rows = <<>> THEN 0
    ELSE (IF Head(rows).from = w /\ Head(rows).to # w THEN Head(rows).amount ELSE 0)
         + Sent(Tail(rows), w)

\* C32. Balance reconstruction. In every reachable state the committed balance
\* of every wallet (all created with balance 0) is what it received by the
\* committed transactions, self-transfers included, minus what it sent to
\* other wallets, whatever the interleaving of the concurrent transfers.
C32_BalanceReconstruction ==
    \A w \in DOMAIN wallets :
        wallets[w].balance = Received(ledger, w) - Sent(ledger, w)

\* Both sessions have committed an issuance of 1 on the same system wallet,
\* which holds 2: no update was lost.
C32_Witness ==
    /\ \A p \in Procs :
          /\ pc[p] = "done" /\ outcome[p] = "committed"
          /\ req[p].kind = "insert" /\ req[p].from = "sys" /\ req[p].to = "sys"
    /\ Len(ledger) = 2
    /\ wallets["sys"].balance = 2

AllValid(lines) ==
    /\ Len(lines) <= MaxBatch
    /\ \A i \in 1..Len(lines) :
          /\ lines[i].amount > 0
          /\ lines[i].to \in DOMAIN wallets
          /\ ~wallets[lines[i].to].is_frozen

C35_Termination ==
    \A p \in Procs : InFlight(p) ~> (pc[p] = "done")

\* Two transfers between the same two wallets in opposite directions: one was
\* ended by the deadlock detector, the other is going on with both rows.
C35_Witness ==
    \E p \in Procs, q \in Procs :
        /\ p # q
        /\ req[p].from = req[q].to /\ req[p].to = req[q].from /\ req[p].from # req[p].to
        /\ pc[p] = "done" /\ outcome[p] = "deadlock detected"
        /\ rowLock[req[q].from] = q /\ rowLock[req[q].to] = q

\* Session p's request names the id of a committed transaction.
NamesCommittedId(p) == req[p].kind = "insert" /\ "id" \in DOMAIN req[p] /\ req[p].id \in IdsOf(ledger)

\* C36. Transaction ids apply at most once. An INSERT whose id is the id of a
\* committed transaction never commits: it ends with an error, and that step
\* leaves every balance and the ledger as they were. So no two committed
\* transactions share an id, and every balance is what the committed
\* transactions, each counted once, add up to.
C36_IdsApplyOnce ==
    /\ [](\A i, j \in 1..Len(ledger) : ledger[i].id = ledger[j].id => i = j)
    /\ [](\A w \in DOMAIN wallets : wallets[w].balance = Received(ledger, w) - Sent(ledger, w))
    /\ [][\A p \in Procs :
            (InFlight(p) /\ NamesCommittedId(p) /\ pc'[p] = "done")
            => /\ outcome'[p] \in Errors
               /\ wallets' = wallets
               /\ ledger' = ledger]_vars

\* The issuance of 1 that is committed was sent a second time with the same id
\* and was rejected for the id: the system wallet holds 1, not 2.
C36_Witness ==
    \E p \in Procs :
        /\ pc[p] = "done" /\ outcome[p] = "transactions_pkey"
        /\ Len(ledger) = 1 /\ ledger[1] = RowOf(req[p])
        /\ req[p].from = "sys" /\ req[p].to = "sys" /\ req[p].amount = 1
        /\ wallets["sys"].balance = 1

\* User u is soft-deleted.
SoftDeleted(u) == u \in DOMAIN users /\ users[u].deleted_at # NULL
\* The step is a call of soft_delete_user on u that returns true.
SoftDeleteStep(p, u) ==
    /\ <<req[p], pc[p], outcome[p]>> # <<req'[p], pc'[p], outcome'[p]>>
    /\ req'[p].kind = "soft_delete_user" /\ req'[p].from = u /\ outcome'[p] = "true"

\* C37. Soft delete leaves the wallet alone. The step of a successful
\* soft_delete_user changes no wallet (balance, frozen flag) and no
\* transaction; and a transfer or issuance whose sender or recipient is the
\* wallet of a soft-deleted user ends as the rules on wallets alone decide: it
\* commits exactly when validate_transaction_balance and the constraints admit
\* it on the wallets of the moment, the commit appends its row and moves the
\* amount, and a rejection changes nothing.
C37_SoftDeleteLeavesWallet ==
    [][/\ \A p \in Procs, u \in WalletIds :
             SoftDeleteStep(p, u) => wallets' = wallets /\ ledger' = ledger
       /\ \A p \in Procs :
             ( /\ InFlight(p) /\ pc'[p] = "done" /\ req[p].kind = "insert"
               /\ (SoftDeleted(req[p].from) \/ SoftDeleted(req[p].to)) )
             => IF Admitted(wallets, RowOf(req[p]))
                THEN /\ outcome'[p] = "committed"
                     /\ wallets' = Applied(wallets, RowOf(req[p]))
                     /\ ledger' = Append(ledger, RowOf(req[p]))
                ELSE /\ outcome'[p] \in Errors
                     /\ wallets' = wallets
                     /\ ledger' = ledger
      ]_vars

\* alice and bob were soft-deleted at time 1; a transfer of 1 from alice to
\* bob requested at time 2 has committed and moved the token.
C37_Witness ==
    \E p \in Procs :
        /\ SoftDeleted("alice") /\ SoftDeleted("bob")
        /\ users["alice"].deleted_at = 1 /\ users["bob"].deleted_at = 1
        /\ pc[p] = "done" /\ outcome[p] = "committed" /\ req[p].kind = "insert"
        /\ req[p].from = "alice" /\ req[p].to = "bob" /\ req[p].amount = 1
        /\ req[p].created_at = 2
        /\ wallets["alice"].balance = 0 /\ wallets["bob"].balance = 2
        /\ ~wallets["alice"].is_frozen /\ ~wallets["bob"].is_frozen

\* The step is a call of soft_delete_user on u by session p (a call repeated
\* at the same time with the same result is no step of its own).
SoftDeleteCall(p, u) ==
    /\ <<req[p], pc[p], outcome[p]>> # <<req'[p], pc'[p], outcome'[p]>>
    /\ pc[p] \in {"idle", "done"} /\ pc'[p] = "done"
    /\ req'[p].kind = "soft_delete_user" /\ req'[p].from = u
    /\ req'[p].created_at = now

\* C38. soft_delete_user is idempotent in effect. A call on a user that exists
\* and is active returns true and sets deleted_at to the time of the call; a
\* call on a soft-deleted user or on an unknown user returns false and changes
\* no user; and no step changes the deleted_at of a soft-deleted user, so a
\* second call leaves the value of the first.
C38_SoftDeleteIdempotent ==
    [][/\ \A p \in Procs, u \in WalletIds :
             SoftDeleteCall(p, u) =>
                IF u \in DOMAIN users /\ users[u].deleted_at = NULL
                THEN /\ outcome'[p] = "true"
                     /\ users'[u].deleted_at = now /\ SoftDeleted(u)'
                     /\ \A v \in DOMAIN users \ {u} : users'[v] = users[v]
                ELSE /\ outcome'[p] = "false"
                     /\ users' = users
       /\ \A u \in WalletIds : SoftDeleted(u) => users'[u] = users[u]
       /\ DOMAIN users' = DOMAIN users
      ]_vars

\* alice was soft-deleted at time 1; a second call at time 2 has returned
\* false and her deleted_at is still 1.
C38_Witness ==
    /\ pc[Operator] = "done" /\ req[Operator].kind = "soft_delete_user"
    /\ req[Operator].from = "alice" /\ req[Operator].created_at = 2
    /\ outcome[Operator] = "false"
    /\ users["alice"].deleted_at = 1
    /\ now = 2

\* A call on a wallet id that is no user has returned false.
C38_WitnessUnknown ==
    /\ pc[Operator] = "done" /\ req[Operator].kind = "soft_delete_user"
    /\ req[Operator].from \notin DOMAIN users
    /\ outcome[Operator] = "false"

\* Session p's INSERT would raise the committed balance of its recipient above
\* the largest BIGINT.
WouldOverflow(p) ==
    /\ req[p].kind = "insert" /\ req[p].to \in DOMAIN wallets
    /\ wallets[req[p].to].balance + req[p].amount > BIGINT_MAX

\* C39. No overflow wrap. Every committed balance lies between 0 and the
\* largest BIGINT and is what the committed transactions add up to; an INSERT
\* that would raise its recipient's balance above the largest BIGINT ends with
\* an error, and that step leaves the ledger and every balance as they were;
\* the commit of an INSERT adds exactly the amount to the recipient's balance,
\* which so never gets smaller by being credited.
C39_NoOverflowWrap ==
    /\ [](\A w \in DOMAIN wallets :
             /\ wallets[w].balance \in 0..BIGINT_MAX
             /\ wallets[w].balance = Received(ledger, w) - Sent(ledger, w))
    /\ [][\A p \in Procs :
            /\ (InFlight(p) /\ pc'[p] = "done" /\ WouldOverflow(p))
               => /\ outcome'[p] \in Errors
                  /\ wallets' = wallets
                  /\ ledger' = ledger
            /\ (CommitStep(p) /\ req[p].kind = "insert")
               => /\ wallets'[req[p].to].balance = wallets[req[p].to].balance + req[p].amount
                  /\ wallets'[req[p].to].balance > wallets[req[p].to].balance
         ]_vars

\* A transfer of 1 from bob to alice, who holds the largest BIGINT, and an
\* issuance of 1 on the system wallet after it had reached the largest BIGINT
\* were both rejected as out of range; bob still holds his token.
C39_Witness ==
    \E p \in Procs, q \in Procs :
        /\ pc[p] = "done" /\ outcome[p] = "bigint out of range"
        /\ req[p].from = "bob" /\ req[p].to = "alice" /\ req[p].amount = 1
        /\ wallets["alice"].balance = BIGINT_MAX /\ wallets["bob"].balance = 1
        /\ pc[q] = "done" /\ outcome[q] = "bigint out of range"
        /\ req[q].from = "sys" /\ req[q].to = "sys" /\ req[q].amount = 1
        /\ wallets["sys"].balance = BIGINT_MAX
        /\ Len(ledger) = Len(LargeFunding) + 1
====
